---- MODULE Spec2Model ----
(***************************************************************************)
(* Cheap-finder: brand matching, discovery and ingestion.                  *)
(*                                                                         *)
(* Strings are sequences of one-character strings, so that lower-casing,   *)
(* punctuation stripping and substring search are computed, not assumed.   *)
(***************************************************************************)
EXTENDS Integers, Sequences, FiniteSets, TLC

VARIABLES
    mVendor,          \* _brand_matches: argument scraped_brand
    mName,            \* _brand_matches: argument brand_name
    mAliases,         \* _brand_matches: argument aliases
    mCalled,          \* whether _brand_matches has been called on them
    mResult,          \* its return value (FALSE before the call)
    products,         \* table products: committed rows, in insertion order
    price_records,    \* table price_records: committed rows, in insertion order
    brand_retailers,  \* table brand_retailers: committed rows
    clock,            \* dt.datetime.utcnow(), as the number of operations so far
    lastOp,           \* what the most recent operation did (observation only)
    prevOp,           \* what the operation before it did (observation only)
    scrapers,         \* the scraper instances the runs created (get_all_scrapers)
    alert_events,     \* table alert_events: committed rows, in insertion order
    notifications,    \* table notifications: committed rows, in insertion order
    brands,           \* table brands: committed rows
    retailers,        \* table retailers: committed rows
    writers,          \* the discovery tasks in flight, each at an await
    http,             \* what the scrapers did on the network, oldest first
    _discovery_progress, \* routes_dashboard.py: the progress entry of each task key
    tasks,            \* the _discover_retailer_background tasks created so far
    time              \* time.time(), in seconds

matchVars == <<mVendor, mName, mAliases, mCalled, mResult>>

dbVars == <<products, price_records, brand_retailers, clock, lastOp, prevOp>>

\* the state outside the matcher's arguments and the three tables above
extVars == <<scrapers, alert_events, notifications, brands, retailers, writers, http,
             _discovery_progress, tasks, time>>

\* the concurrent tasks and the network log
procVars == <<writers, http, _discovery_progress, tasks, time>>

\* the retailer discovery tasks, their progress entries and the wall clock
progVars == <<_discovery_progress, tasks, time>>

\* the tables the admin operations edit
adminVars == <<brands, retailers>>

vars == <<mVendor, mName, mAliases, mCalled, mResult,
          products, price_records, brand_retailers, clock, lastOp, prevOp,
          scrapers, alert_events, notifications, brands, retailers,
          writers, http, _discovery_progress, tasks, time>>

(***************************************************************************)
(* Character-level string helpers (Python str.lower, re.sub, `in`).        *)
(***************************************************************************)
Range(s) == {s[i] : i \in 1..Len(s)}

UpperLetters == <<"A","B","C","D","E","F","G","H","I","J","K","L","M",
                  "N","O","P","Q","R","S","T","U","V","W","X","Y","Z">>

LowerLetters == <<"a","b","c","d","e","f","g","h","i","j","k","l","m",
                  "n","o","p","q","r","s","t","u","v","w","x","y","z">>

DigitChars == {"0","1","2","3","4","5","6","7","8","9"}

\* str.lower() on one character of the model's alphabet
LowerOf == [c \in Range(UpperLetters) |->
               LowerLetters[CHOOSE i \in 1..Len(UpperLetters) : UpperLetters[i] = c]]

LowerChar(c) == IF c \in DOMAIN LowerOf THEN LowerOf[c] ELSE c

\* str.lower()
ToLower(s) == [i \in 1..Len(s) |-> LowerChar(s[i])]

\* the characters re.sub(r"[^a-z0-9]", "", ...) keeps
AlnumChars == Range(LowerLetters) \cup DigitChars

IsAlnumChar(c) == c \in AlnumChars

\* Python `needle in hay` for strings
Contains(hay, needle) ==
    \E i \in 0..(Len(hay) - Len(needle)) :
        SubSeq(hay, i + 1, i + Len(needle)) = needle

(***************************************************************************)
(* src/brands/discovery.py: _normalize, _brand_matches                     *)
(***************************************************************************)
_normalize(name) == SelectSeq(ToLower(name), IsAlnumChar)

\* the set `acceptable` built at lines 67-69
Acceptable(brand_name, aliases) ==
    {_normalize(brand_name)} \cup {_normalize(aliases[i]) : i \in 1..Len(aliases)}

\* mutant: only the canonical name is searched for a space
HasCompoundName_NameOnly(brand_name, aliases) == " " \in Range(brand_name)

\* `has_compound_name` at line 77
HasCompoundName(brand_name, aliases) ==
    \E s \in {brand_name} \cup Range(aliases) : " " \in Range(s)

\* the shortest acceptable name the substring rule applies to (line 84)
MinFuzzyLen == 4

\* mutant: the length floor is one too low
FuzzyHit_Floor3(norm_scraped, acceptable) ==
    \E name \in acceptable :
        /\ name # <<>>
        /\ Len(name) >= MinFuzzyLen - 1
        /\ (Contains(norm_scraped, name) \/ Contains(name, norm_scraped))

\* the loop at lines 83-85
FuzzyHit(norm_scraped, acceptable) ==
    \E name \in acceptable :
        /\ name # <<>>
        /\ Len(name) >= MinFuzzyLen
        /\ (Contains(norm_scraped, name) \/ Contains(name, norm_scraped))

_brand_matches(scraped_brand, brand_name, aliases) ==
    IF scraped_brand = <<>> THEN TRUE
    ELSE LET norm_scraped == _normalize(scraped_brand)
             acceptable == Acceptable(brand_name, aliases)
         IN  IF norm_scraped = <<>> THEN TRUE
             ELSE IF norm_scraped \in acceptable THEN TRUE
             ELSE IF ~HasCompoundName(brand_name, aliases)
                  THEN FuzzyHit(norm_scraped, acceptable)
                  ELSE FALSE

(***************************************************************************)
(* src/brands/discovery.py: _is_kids_product                               *)
(***************************************************************************)
_KIDS_KEYWORDS ==
    << <<"k","i","d","s">>,
       <<"k","i","d","'","s">>,
       <<"y","o","u","t","h">>,
       <<"j","u","n","i","o","r">>,
       <<"j","r",".">>,
       <<"j","r"," ">>,
       <<"t","o","d","d","l","e","r">>,
       <<"i","n","f","a","n","t">>,
       <<"b","a","b","y">>,
       <<"b","o","y","'","s">>,
       <<"b","o","y","s","'">>,
       <<"g","i","r","l","'","s">>,
       <<"g","i","r","l","s","'">>,
       <<"e","n","f","a","n","t">>,
       <<"e","n","f","a","n","t","s">>,
       <<"b","é","b","é">>,
       <<"b","e","b","e">>,
       <<"g","a","r","ç","o","n">>,
       <<"g","a","r","c","o","n">>,
       <<"f","i","l","l","e">>,
       <<"b","a","m","b","i","n">>,
       <<"l","i","t","t","l","e"," ","k","i","d","s">>,
       <<"b","i","g"," ","k","i","d","s">>,
       <<"g","r","a","d","e"," ","s","c","h","o","o","l">>,
       <<"p","r","e","s","c","h","o","o","l">>,
       <<" ","g","s">>,
       <<" ","t","d">>,
       <<" ","p","s">> >>

\* mutant: the name is not lower-cased before the search
_is_kids_product_CaseSensitive(name) ==
    \E k \in 1..Len(_KIDS_KEYWORDS) : Contains(name, _KIDS_KEYWORDS[k])

_is_kids_product(name) ==
    LET lower == ToLower(name)
    IN  \E k \in 1..Len(_KIDS_KEYWORDS) : Contains(lower, _KIDS_KEYWORDS[k])

\* the product names of the model's candidates
TrailShoe == <<"T","r","a","i","l"," ","S","h","o","e">>

KidsTrailShoe == <<"K","i","d","s"," ","T","r","a","i","l"," ","S","h","o","e">>

RunnerGS == <<"R","u","n","n","e","r"," ","G","S">>

ProductNames == {TrailShoe, KidsTrailShoe, RunnerGS}

\* _is_kids_product, evaluated once for each name of the model
IsKidsName == [name \in ProductNames |-> _is_kids_product(name)]

(***************************************************************************)
(* Data: src/retailers/base.py ScrapedProduct, src/db/models.py            *)
(*                                                                         *)
(* A nullable integer column (Optional[int]) is <<>> for None and <<n>>    *)
(* for n.  The timestamps created_at / recorded_at are set once by column  *)
(* defaults and read by none of the operations below; they are left out.   *)
(***************************************************************************)

\* Reading an attribute the object does not have raises AttributeError.
\* ScrapedProduct declares no field `sizes`; NoAttr marks a candidate without it.
NoAttr == "<no attribute>"

\* ScrapedProduct(name, url, price, original_price, on_sale, image_url,
\* thumbnail_url, sku, gender, brand), plus the attribute `sizes` that
\* store_scraped_products reads from each candidate.
ScrapedProduct(name, url, pricing, media, brand) ==
    [name |-> name, url |-> url,
     price |-> pricing.price, original_price |-> pricing.original_price,
     on_sale |-> pricing.on_sale,
     image_url |-> media.image_url, thumbnail_url |-> media.thumbnail_url,
     sku |-> media.sku, gender |-> media.gender,
     brand |-> brand, sizes |-> media.sizes]

\* the Brand rows of the model (aliases is the decoded JSON list); the third
\* was deactivated (PATCH /api/brands/{id} with active = false)
Brands ==
    << [id |-> 1, name |-> <<"A","c","g">>,
        aliases |-> << <<"N","i","k","e"," ","A","c","g">> >>, active |-> TRUE],
       [id |-> 2, name |-> <<"N","i","k","e">>, aliases |-> <<>>, active |-> TRUE],
       [id |-> 3, name |-> <<"V","e","j","a">>, aliases |-> <<>>, active |-> FALSE] >>

\* the Retailer rows of the model, in name order; the scraper of the second
\* is one of those the automated runs leave out, and the scraper type of the
\* third (seeded by registry.py) has no class in get_scraper_classes
Retailers ==
    << [id |-> 1, name |-> "NRML", scraper_type |-> "nrml", active |-> TRUE],
       [id |-> 2, name |-> "Simons", scraper_type |-> "simons", active |-> TRUE],
       [id |-> 3, name |-> "The last hunt", scraper_type |-> "the_last_hunt",
        active |-> TRUE] >>

BrandIds == {Brands[i].id : i \in 1..Len(Brands)}

RetailerIds == {Retailers[i].id : i \in 1..Len(Retailers)}

BrandById(id) == CHOOSE b \in Range(Brands) : b.id = id

RetailerById(id) == CHOOSE r \in Range(Retailers) : r.id = id

\* an empty database (tables after create_all)
DbEmpty ==
    /\ products = <<>>
    /\ price_records = <<>>
    /\ brand_retailers = <<>>
    /\ clock = 0
    /\ lastOp = [kind |-> "none"]
    /\ prevOp = [kind |-> "none"]

\* an entry of _discovery_progress (routes_dashboard.py 393-402); the
\* message text is left out
ProgressEntry(status, current_brand, brands_done, brands_total, found, new, at) ==
    [status |-> status, current_brand |-> current_brand, brands_done |-> brands_done,
     brands_total |-> brands_total, products_found |-> found, new_products |-> new,
     updated_at |-> at]

\* the retailer ids a task key is built from
ProgressKeys == RetailerIds

\* a key that is not in the dict
NoProgress == ProgressEntry("absent", <<>>, 0, 0, 0, 0, 0)

\* the asyncio tasks that can run discovery at the same time
Writers == {1, 2}

\* a task that is not inside store_scraped_products
Idle == [pc |-> "idle"]

\* no run has created a scraper, no alert has fired, the brands and
\* retailers are the seeded ones, and nothing is in flight
ExtInit ==
    /\ scrapers = {}
    /\ alert_events = <<>>
    /\ notifications = <<>>
    /\ brands = Brands
    /\ retailers = Retailers
    /\ writers = [w \in Writers |-> Idle]
    /\ http = <<>>
    /\ _discovery_progress = [key \in ProgressKeys |-> NoProgress]
    /\ tasks = <<>>
    /\ time = 0

\* the tables one session works on
Tables(p, pr, br) == [products |-> p, price_records |-> pr, brand_retailers |-> br]

\* the committed tables, as a session opened now sees them
Db == Tables(products, price_records, brand_retailers)

\* the id the database gives the next row of a table
NextId(rows) ==
    IF rows = <<>> THEN 1
    ELSE 1 + CHOOSE m \in {rows[i].id : i \in 1..Len(rows)} :
                 \A i \in 1..Len(rows) : rows[i].id <= m

(***************************************************************************)
(* src/brands/discovery.py: store_scraped_products                         *)
(***************************************************************************)

\* select(Product).where(Product.url == sp.url): the positions of the rows
ProductsByUrl(rows, url) == {i \in 1..Len(rows) : rows[i].url = url}

\* mutant: image_url is assigned without the `if sp.image_url` guard
UpdateExisting_Blanking(t, i, sp, now) ==
    LET p0 == t.products[i]
        p1 == [p0 EXCEPT !.current_price = <<sp.price>>,
                         !.original_price = sp.original_price,
                         !.on_sale = sp.on_sale,
                         !.last_checked = <<now>>,
                         !.image_url = sp.image_url]
        p3 == IF sp.thumbnail_url # ""
              THEN [p1 EXCEPT !.thumbnail_url = sp.thumbnail_url] ELSE p1
        p4 == IF sp.gender # "" THEN [p3 EXCEPT !.gender = sp.gender] ELSE p3
    IN  IF sp.sizes = NoAttr
        THEN [t |-> [t EXCEPT !.products[i] = p4], raised |-> TRUE, id |-> p0.id, new |-> 0]
        ELSE LET p5 == IF sp.sizes # "" THEN [p4 EXCEPT !.sizes = sp.sizes] ELSE p4
             IN  [t |-> [t EXCEPT !.products[i] = p5], raised |-> FALSE,
                  id |-> p0.id, new |-> 0]

\* lines 192-204: update the existing row at position i.
\* The assignments run in source order; reading sp.sizes comes last.
UpdateExisting(t, i, sp, now) ==
    LET p0 == t.products[i]
        p1 == [p0 EXCEPT !.current_price = <<sp.price>>,
                         !.original_price = sp.original_price,
                         !.on_sale = sp.on_sale,
                         !.last_checked = <<now>>]
        p2 == IF sp.image_url # "" THEN [p1 EXCEPT !.image_url = sp.image_url] ELSE p1
        p3 == IF sp.thumbnail_url # ""
              THEN [p2 EXCEPT !.thumbnail_url = sp.thumbnail_url] ELSE p2
        p4 == IF sp.gender # "" THEN [p3 EXCEPT !.gender = sp.gender] ELSE p3
    IN  IF sp.sizes = NoAttr
        THEN [t |-> [t EXCEPT !.products[i] = p4], raised |-> TRUE, id |-> p0.id, new |-> 0]
        ELSE LET p5 == IF sp.sizes # "" THEN [p4 EXCEPT !.sizes = sp.sizes] ELSE p4
             IN  [t |-> [t EXCEPT !.products[i] = p5], raised |-> FALSE,
                  id |-> p0.id, new |-> 0]

\* mutant: the table has no unique constraint on url
InsertProduct_NoConstraint(t, row) ==
    [t |-> [t EXCEPT !.products = Append(@, row)], raised |-> FALSE]

\* session.add(product) and the flush that sends the INSERT: the constraint
\* uq_product_url (models.py) makes it fail with IntegrityError when a row
\* with that url exists.
InsertProduct(t, row) ==
    IF \E i \in 1..Len(t.products) : t.products[i].url = row.url
    THEN [t |-> t, raised |-> TRUE]
    ELSE [t |-> [t EXCEPT !.products = Append(@, row)], raised |-> FALSE]

\* lines 206-226: build and add a new row (`x or ""` of a string is x); the
\* arguments of Product(...) are evaluated before the row exists, so a
\* failing sp.sizes adds nothing.
CreateNew(t, brand, retailer, sp, now) ==
    IF sp.sizes = NoAttr
    THEN [t |-> t, raised |-> TRUE, id |-> 0, new |-> 0]
    ELSE LET row == [id |-> NextId(t.products),
                     name |-> sp.name,
                     brand_id |-> brand.id,
                     retailer_id |-> retailer.id,
                     url |-> sp.url,
                     image_url |-> sp.image_url,
                     thumbnail_url |-> sp.thumbnail_url,
                     sku |-> sp.sku,
                     gender |-> sp.gender,
                     sizes |-> sp.sizes,
                     current_price |-> <<sp.price>>,
                     original_price |-> sp.original_price,
                     on_sale |-> sp.on_sale,
                     tracked |-> TRUE,
                     last_checked |-> <<now>>]
             ins == InsertProduct(t, row)
         IN  [t |-> ins.t, raised |-> ins.raised, id |-> row.id, new |-> 1]

\* lines 229-236
AddPriceRecord(t, product_id, sp) ==
    [t EXCEPT !.price_records =
        Append(@, [id |-> NextId(t.price_records),
                   product_id |-> product_id,
                   price |-> sp.price,
                   original_price |-> sp.original_price,
                   on_sale |-> sp.on_sale,
                   currency |-> "CAD"])]

\* lines 178-236: the body of the loop for one candidate
StoreOne(t, brand, retailer, sp, now) ==
    IF sp.url = "" THEN [t |-> t, raised |-> FALSE, new |-> 0]
    ELSE IF IsKidsName[sp.name] THEN [t |-> t, raised |-> FALSE, new |-> 0]
    ELSE LET found == ProductsByUrl(t.products, sp.url)
         IN  IF Cardinality(found) > 1
             THEN [t |-> t, raised |-> TRUE, new |-> 0]   \* scalar_one_or_none
             ELSE LET r == IF found # {}
                           THEN UpdateExisting(t, CHOOSE i \in found : TRUE, sp, now)
                           ELSE CreateNew(t, brand, retailer, sp, now)
                  IN  IF r.raised
                      THEN [t |-> r.t, raised |-> TRUE, new |-> 0]
                      ELSE [t |-> AddPriceRecord(r.t, r.id, sp),
                            raised |-> FALSE, new |-> r.new]

\* lines 174-239: the loop over the batch; an exception leaves the loop and
\* the function before the commit.
RECURSIVE StoreLoop(_, _, _, _, _, _)
StoreLoop(t, brand, retailer, scraped, now, new_count) ==
    IF scraped = <<>>
    THEN [t |-> t, raised |-> FALSE, new_count |-> new_count]
    ELSE LET r == StoreOne(t, brand, retailer, Head(scraped), now)
         IN  IF r.raised
             THEN [t |-> r.t, raised |-> TRUE, new_count |-> new_count + r.new]
             ELSE StoreLoop(r.t, brand, retailer, Tail(scraped), now,
                            new_count + r.new)

store_scraped_products(t, brand, retailer, scraped, now) ==
    StoreLoop(t, brand, retailer, scraped, now, 0)

(***************************************************************************)
(* src/brands/discovery.py: _filter_by_brand, discover_brand_at_retailer   *)
(***************************************************************************)
_filter_by_brand(scraped, brand) ==
    SelectSeq(scraped, LAMBDA sp : _brand_matches(sp.brand, brand.name, brand.aliases))

\* line 127
SearchTerms(brand) == <<brand.name>> \o brand.aliases

\* what scraper.search_brand(term) does for one term: it raises, or it
\* returns a list of candidates (possibly empty)
SearchRaises == [raises |-> TRUE, products |-> <<>>]

SearchReturns(found) == [raises |-> FALSE, products |-> found]

\* mutant: the row is added without looking for an existing one
EnsureBrandRetailer_Always(t, brand, retailer) ==
    [t EXCEPT !.brand_retailers =
        Append(@, [id |-> NextId(t.brand_retailers),
                   brand_id |-> brand.id,
                   retailer_id |-> retailer.id,
                   verified |-> TRUE])]

\* lines 139-152: add the BrandRetailer row unless the pair has one (the
\* insert follows the lookup in the same session, so the constraint
\* uq_brand_retailer does not fire)
EnsureBrandRetailer(t, brand, retailer) ==
    IF \E i \in 1..Len(t.brand_retailers) :
           /\ t.brand_retailers[i].brand_id = brand.id
           /\ t.brand_retailers[i].retailer_id = retailer.id
    THEN t
    ELSE [t EXCEPT !.brand_retailers =
             Append(@, [id |-> NextId(t.brand_retailers),
                        brand_id |-> brand.id,
                        retailer_id |-> retailer.id,
                        verified |-> TRUE])]

\* mutant: a result emptied by the brand filter ends the attempt
RECURSIVE SearchLoop_StopOnRaw(_, _, _, _, _, _)
SearchLoop_StopOnRaw(t, brand, retailer, responses, i, tried) ==
    IF i > Len(SearchTerms(brand))
    THEN [t |-> t, products |-> <<>>, tried |-> tried, propagated |-> FALSE]
    ELSE LET now_tried == Append(tried, i)
             resp == responses[i]
         IN  IF resp.raises \/ resp.products = <<>>
             THEN SearchLoop_StopOnRaw(t, brand, retailer, responses, i + 1, now_tried)
             ELSE LET filtered == _filter_by_brand(resp.products, brand)
                  IN  IF filtered = <<>>
                      THEN [t |-> t, products |-> <<>>, tried |-> now_tried,
                            propagated |-> FALSE]
                      ELSE [t |-> EnsureBrandRetailer(t, brand, retailer),
                            products |-> filtered,
                            tried |-> now_tried,
                            propagated |-> FALSE]

\* mutant: no try/except around search_brand
RECURSIVE SearchLoop_NoExcept(_, _, _, _, _, _)
SearchLoop_NoExcept(t, brand, retailer, responses, i, tried) ==
    IF i > Len(SearchTerms(brand))
    THEN [t |-> t, products |-> <<>>, tried |-> tried, propagated |-> FALSE]
    ELSE LET now_tried == Append(tried, i)
             resp == responses[i]
         IN  IF resp.raises
             THEN [t |-> t, products |-> <<>>, tried |-> now_tried, propagated |-> TRUE]
             ELSE IF resp.products = <<>>
             THEN SearchLoop_NoExcept(t, brand, retailer, responses, i + 1, now_tried)
             ELSE LET filtered == _filter_by_brand(resp.products, brand)
                  IN  IF filtered = <<>>
                      THEN SearchLoop_NoExcept(t, brand, retailer, responses, i + 1,
                                               now_tried)
                      ELSE [t |-> EnsureBrandRetailer(t, brand, retailer),
                            products |-> filtered,
                            tried |-> now_tried,
                            propagated |-> FALSE]

\* lines 129-164: the loop over the search terms from term i on.
\* responses[i] is what search_brand does for the i-th term; `tried` collects
\* the positions of the terms search_brand was called with, in call order.
RECURSIVE SearchLoop(_, _, _, _, _, _)
SearchLoop(t, brand, retailer, responses, i, tried) ==
    IF i > Len(SearchTerms(brand))
    THEN [t |-> t, products |-> <<>>, tried |-> tried, propagated |-> FALSE]
    ELSE LET now_tried == Append(tried, i)
             resp == responses[i]
         IN  IF resp.raises
             THEN SearchLoop(t, brand, retailer, responses, i + 1, now_tried)
             ELSE IF resp.products = <<>>
             THEN SearchLoop(t, brand, retailer, responses, i + 1, now_tried)
             ELSE LET filtered == _filter_by_brand(resp.products, brand)
                  IN  IF filtered = <<>>
                      THEN SearchLoop(t, brand, retailer, responses, i + 1, now_tried)
                      ELSE [t |-> EnsureBrandRetailer(t, brand, retailer),
                            products |-> filtered,
                            tried |-> now_tried,
                            propagated |-> FALSE]

discover_brand_at_retailer(t, brand, retailer, responses) ==
    SearchLoop(t, brand, retailer, responses, 1, <<>>)

(***************************************************************************)
(* Inputs of ingestion and discovery.                                      *)
(***************************************************************************)
MaxOps == 2

PriceRegular == [price |-> 100, original_price |-> <<>>, on_sale |-> FALSE]

PriceSale == [price |-> 80, original_price |-> <<120>>, on_sale |-> TRUE]

MediaFull ==
    [image_url |-> "img-a", thumbnail_url |-> "th-a", sku |-> "sku-a",
     gender |-> "men", sizes |-> "[S]"]

MediaOther ==
    [image_url |-> "img-b", thumbnail_url |-> "th-b", sku |-> "sku-b",
     gender |-> "women", sizes |-> "[M]"]

MediaBlank ==
    [image_url |-> "", thumbnail_url |-> "", sku |-> "", gender |-> "", sizes |-> ""]

\* the media fields of a ScrapedProduct as a scraper builds it: no `sizes`
MediaScraped ==
    [image_url |-> "img-s", thumbnail_url |-> "th-s", sku |-> "",
     gender |-> "men", sizes |-> NoAttr]

MediaScrapedBlank ==
    [image_url |-> "", thumbnail_url |-> "", sku |-> "", gender |-> "", sizes |-> NoAttr]

VendorNikeACG == <<"N","i","k","e"," ","A","C","G">>

VendorNike == <<"N","i","k","e">>

\* batches handed to store_scraped_products directly
StoreBatches ==
    LET a1 == ScrapedProduct(TrailShoe, "u1", PriceRegular, MediaFull, <<>>)
        a2 == ScrapedProduct(TrailShoe, "u1", PriceSale, MediaBlank, <<>>)
        a3 == ScrapedProduct(TrailShoe, "u1", PriceSale, MediaOther, <<>>)
        b1 == ScrapedProduct(TrailShoe, "u2", PriceSale, MediaOther, <<>>)
        k1 == ScrapedProduct(KidsTrailShoe, "u2", PriceRegular, MediaFull, <<>>)
        k2 == ScrapedProduct(RunnerGS, "u1", PriceSale, MediaOther, <<>>)
        n1 == ScrapedProduct(TrailShoe, "", PriceRegular, MediaFull, <<>>)
        s1 == ScrapedProduct(TrailShoe, "u1", PriceRegular, MediaScraped, <<>>)
        s2 == ScrapedProduct(TrailShoe, "u2", PriceSale, MediaScrapedBlank, <<>>)
    IN  { <<a1>>, <<a2>>, <<a3>>, <<a1, a2>>, <<a1, b1>>,
          <<k2, a1>>, <<n1, b1>>, <<k1, n1>>, <<s1>>, <<a2, s2>> }

\* what a scraper returns for one search term: ScrapedProduct values
SearchResponses ==
    LET good == ScrapedProduct(TrailShoe, "u1", PriceRegular, MediaScraped, VendorNikeACG)
        nike == ScrapedProduct(TrailShoe, "u2", PriceSale, MediaScrapedBlank, VendorNike)
        kids == ScrapedProduct(KidsTrailShoe, "u2", PriceSale, MediaScraped, <<>>)
    IN  { SearchRaises, SearchReturns(<<>>), SearchReturns(<<nike>>),
          SearchReturns(<<kids>>), SearchReturns(<<nike, good>>) }

\* the urls POST /api/products is called with
ApiUrls == {"u1"}

\* the (brand id, retailer id) pairs the operations are run for
Pairs == { <<1, 1>>, <<2, 1>>, <<2, 2>> }

(***************************************************************************)
(* Operations.  Each runs in a session of its own: what it flushed becomes *)
(* visible to others at its commit, and is rolled back when an exception   *)
(* closes the session first.                                               *)
(***************************************************************************)
Init ==
    /\ mVendor = <<>>
    /\ mName = <<>>
    /\ mAliases = <<>>
    /\ mCalled = FALSE
    /\ mResult = FALSE
    /\ DbEmpty
    /\ ExtInit

HasBrandRetailer(rows, brand_id, retailer_id) ==
    \E i \in 1..Len(rows) :
        rows[i].brand_id = brand_id /\ rows[i].retailer_id = retailer_id

\* a caller hands a batch to store_scraped_products
IngestBatch ==
    \E pair \in Pairs, batch \in StoreBatches :
        LET b == pair[1]
            r == pair[2]
            t0 == Tables(products, price_records, brand_retailers)
            res == store_scraped_products(t0, BrandById(b), RetailerById(r),
                                          batch, clock + 1)
            t1 == IF res.raised THEN t0 ELSE res.t
        IN  /\ clock < MaxOps
            /\ products' = t1.products
            /\ price_records' = t1.price_records
            /\ brand_retailers' = t1.brand_retailers
            /\ clock' = clock + 1
            /\ lastOp' = [kind |-> "store", brand |-> b, retailer |-> r,
                          responses |-> <<>>, tried |-> <<>>, propagated |-> FALSE,
                          had_row |-> HasBrandRetailer(brand_retailers, b, r),
                          created |-> FALSE,
                          stored |-> TRUE, batch |-> batch,
                          raised |-> res.raised, new_count |-> res.new_count,
                          before |-> t0]
            /\ prevOp' = lastOp
            /\ UNCHANGED matchVars
            /\ UNCHANGED extVars

\* one (brand, retailer) pair of a discovery run: discover_brand_at_retailer,
\* then store_scraped_products when it found something
DiscoverPair ==
    \E pair \in Pairs :
    \E responses \in [1..Len(SearchTerms(BrandById(pair[1]))) -> SearchResponses] :
        LET b == pair[1]
            r == pair[2]
            t0 == Tables(products, price_records, brand_retailers)
            d == discover_brand_at_retailer(t0, BrandById(b), RetailerById(r), responses)
            stored == d.products # <<>> /\ ~d.propagated
            res == IF stored
                   THEN store_scraped_products(d.t, BrandById(b), RetailerById(r),
                                               d.products, clock + 1)
                   ELSE [t |-> d.t, raised |-> FALSE, new_count |-> 0]
            t1 == IF stored /\ ~res.raised THEN res.t ELSE t0
        IN  /\ clock < MaxOps
            /\ products' = t1.products
            /\ price_records' = t1.price_records
            /\ brand_retailers' = t1.brand_retailers
            /\ clock' = clock + 1
            /\ lastOp' = [kind |-> "discover", brand |-> b, retailer |-> r,
                          responses |-> responses, tried |-> d.tried,
                          propagated |-> d.propagated,
                          had_row |-> HasBrandRetailer(brand_retailers, b, r),
                          created |-> Len(d.t.brand_retailers) > Len(brand_retailers),
                          stored |-> stored, batch |-> d.products,
                          raised |-> res.raised, new_count |-> res.new_count,
                          before |-> t0]
            /\ prevOp' = lastOp
            /\ UNCHANGED matchVars
            /\ UNCHANGED extVars

\* POST /api/products (routes_products.py create_product): the row gets the
\* column defaults of models.py for what the request does not carry
CreateProduct ==
    \E pair \in Pairs, url \in ApiUrls :
        LET t0 == Tables(products, price_records, brand_retailers)
            row == [id |-> NextId(products),
                    name |-> TrailShoe,
                    brand_id |-> pair[1],
                    retailer_id |-> pair[2],
                    url |-> url,
                    image_url |-> "img-api",
                    thumbnail_url |-> "",
                    sku |-> "",
                    gender |-> "",
                    sizes |-> "",
                    current_price |-> <<>>,
                    original_price |-> <<>>,
                    on_sale |-> FALSE,
                    tracked |-> TRUE,
                    last_checked |-> <<>>]
            ins == InsertProduct(t0, row)
        IN  /\ clock < MaxOps
            /\ products' = ins.t.products
            /\ UNCHANGED <<price_records, brand_retailers>>
            /\ clock' = clock + 1
            /\ lastOp' = [kind |-> "create", brand |-> pair[1], retailer |-> pair[2],
                          responses |-> <<>>, tried |-> <<>>, propagated |-> FALSE,
                          had_row |-> HasBrandRetailer(brand_retailers, pair[1], pair[2]),
                          created |-> FALSE,
                          stored |-> FALSE, batch |-> <<>>,
                          raised |-> ins.raised, new_count |-> 0,
                          before |-> t0]
            /\ prevOp' = lastOp
            /\ UNCHANGED matchVars
            /\ UNCHANGED extVars

Next == IngestBatch \/ DiscoverPair \/ CreateProduct

Spec == Init /\ [][Next]_vars

(***************************************************************************)
(* Properties of ingestion and discovery (checked under Spec).             *)
(***************************************************************************)
\* the most recent operation called store_scraped_products
LastStored == lastOp.kind \in {"store", "discover"} /\ lastOp.stored

\* the names with a kids/youth keyword, by the claim's wording: a
\* case-insensitive substring match against the keyword list
KidsKeywordNames ==
    {n \in ProductNames :
        \E k \in 1..Len(_KIDS_KEYWORDS) : Contains(ToLower(n), _KIDS_KEYWORDS[k])}

\* the candidates of a batch that have a url and are not kids items
Survives(sp) == sp.url # "" /\ sp.name \notin KidsKeywordNames

Survivors(batch) == SelectSeq(batch, Survives)

\* the price records the most recent operation added
AddedRecords ==
    SubSeq(price_records, Len(lastOp.before.price_records) + 1, Len(price_records))

\* C1: no two Product rows have the same url.
C1_UniqueUrl ==
    \A i, j \in 1..Len(products) : products[i].url = products[j].url => i = j

\* C1 witness: an ingestion run met, and updated, a url stored under another
\* brand, and still there is one row for it
C1_Witness ==
    /\ lastOp.kind = "store" /\ ~lastOp.raised
    /\ \E i \in 1..Len(products) :
          /\ products[i].brand_id # lastOp.brand
          /\ products[i].last_checked = <<clock>>
          /\ \E k \in 1..Len(lastOp.batch) : lastOp.batch[k].url = products[i].url

\* C2 (as claimed): a second run of store_scraped_products on the batch, brand
\* and retailer of the run before it leaves the number of Product rows as it
\* was, returns 0, and each of the two runs appends one PriceRecord per
\* surviving candidate.
C2_IdempotentIngestion ==
    ( /\ LastStored
      /\ prevOp.kind \in {"store", "discover"}
      /\ prevOp.stored
      /\ prevOp.batch = lastOp.batch
      /\ prevOp.brand = lastOp.brand
      /\ prevOp.retailer = lastOp.retailer )
    => /\ ~prevOp.raised /\ ~lastOp.raised
       /\ lastOp.new_count = 0
       /\ Len(products) = Len(lastOp.before.products)
       /\ Len(price_records) - Len(lastOp.before.price_records)
              = Len(Survivors(lastOp.batch))
       /\ Len(lastOp.before.price_records) - Len(prevOp.before.price_records)
              = Len(Survivors(lastOp.batch))

\* C5 (as claimed): store_scraped_products appends, for every surviving
\* candidate and in batch order, one PriceRecord that references the
\* candidate's Product row and carries its price, original price and on-sale
\* flag with currency CAD.
C5_OneRecordPerCandidate ==
    LastStored =>
        LET surv == Survivors(lastOp.batch)
        IN  /\ Len(AddedRecords) = Len(surv)
            /\ \A k \in 1..Len(surv) :
                  /\ AddedRecords[k].price = surv[k].price
                  /\ AddedRecords[k].original_price = surv[k].original_price
                  /\ AddedRecords[k].on_sale = surv[k].on_sale
                  /\ AddedRecords[k].currency = "CAD"
                  /\ \E i \in 1..Len(products) :
                        /\ products[i].id = AddedRecords[k].product_id
                        /\ products[i].url = surv[k].url

\* C26 (as claimed): a call of store_scraped_products on a batch of
\* ScrapedProduct values as the scrapers build them, each with a url and a
\* name that is no kids item, goes through the whole batch and commits
\* without raising.
C26_ScrapedBatchCommits ==
    ( /\ LastStored
      /\ \A k \in 1..Len(lastOp.batch) :
            lastOp.batch[k].sizes = NoAttr /\ Survives(lastOp.batch[k]) )
    => ~lastOp.raised

\* the fields an update overwrites only with a non-empty value
GuardedFields == {"image_url", "thumbnail_url", "gender", "sizes"}

\* C6: a Product that existed before a run of store_scraped_products keeps
\* its image_url, thumbnail_url, gender and sizes, except where a candidate
\* for its url carries a non-empty value, which it then holds.
C6_EmptyNeverOverwrites ==
    LastStored =>
        \A i \in 1..Len(lastOp.before.products) :
        \A j \in 1..Len(products) :
            products[j].id = lastOp.before.products[i].id =>
                \A f \in GuardedFields :
                    \/ products[j][f] = lastOp.before.products[i][f]
                    \/ \E k \in 1..Len(lastOp.batch) :
                          /\ lastOp.batch[k].url = products[j].url
                          /\ lastOp.batch[k][f] \notin {"", NoAttr}
                          /\ products[j][f] = lastOp.batch[k][f]

\* C6 witness: an update by a candidate with an empty image_url changed the
\* price of a Product and left its stored image_url in place
C6_Witness ==
    /\ LastStored /\ ~lastOp.raised
    /\ \E i \in 1..Len(lastOp.before.products) :
       \E j \in 1..Len(products) :
          /\ products[j].id = lastOp.before.products[i].id
          /\ products[j].image_url # ""
          /\ products[j].image_url = lastOp.before.products[i].image_url
          /\ products[j].current_price # lastOp.before.products[i].current_price
          /\ \A k \in 1..Len(lastOp.batch) :
                lastOp.batch[k].url = products[j].url => lastOp.batch[k].image_url = ""

\* what search_brand returned for the i-th term of the last attempt
RawNonEmpty(i) == ~lastOp.responses[i].raises /\ lastOp.responses[i].products # <<>>

\* ... and what of it belongs to the brand
MatchingOf(i) ==
    LET brand == BrandById(lastOp.brand)
    IN  SelectSeq(lastOp.responses[i].products,
                  LAMBDA sp : _brand_matches(sp.brand, brand.name, brand.aliases))

FirstOf(S, n) == IF S = {} THEN n ELSE CHOOSE i \in S : \A j \in S : i <= j

C8_OneAssociationPerPair ==
    /\ \A i, j \in 1..Len(brand_retailers) :
          ( /\ brand_retailers[i].brand_id = brand_retailers[j].brand_id
            /\ brand_retailers[i].retailer_id = brand_retailers[j].retailer_id )
          => i = j
    /\ \A i \in 1..Len(brand_retailers) : brand_retailers[i].verified
    /\ lastOp.kind = "discover" =>
          /\ lastOp.created => (lastOp.batch # <<>> /\ ~lastOp.had_row)
          /\ lastOp.batch = <<>> => ~lastOp.created
          /\ Len(brand_retailers) <= Len(lastOp.before.brand_retailers) + 1

\* C8 witness: an attempt with a non-empty filtered result for a pair that
\* already had its row added none
C8_Witness ==
    /\ lastOp.kind = "discover"
    /\ lastOp.had_row
    /\ lastOp.batch # <<>>
    /\ ~lastOp.created
    /\ ~lastOp.raised
    /\ Len(brand_retailers) = 1

\* the urls of a batch all of whose candidates are kids items
KidsOnlyUrls(batch) ==
    {u \in {batch[k].url : k \in 1..Len(batch)} :
        \A k \in 1..Len(batch) : batch[k].url = u => batch[k].name \in KidsKeywordNames}

\* C9: no Product row stored by ingestion has a kids name; a url for which a
\* batch has only kids candidates gets no new row, no change to its row and
\* no PriceRecord.
C9_KidsNeverStored ==
    /\ \A i \in 1..Len(products) : products[i].name \notin KidsKeywordNames
    /\ LastStored =>
          \A u \in KidsOnlyUrls(lastOp.batch) :
              /\ \A i \in 1..Len(products) :
                    products[i].url = u =>
                        \E j \in 1..Len(lastOp.before.products) :
                            lastOp.before.products[j] = products[i]
              /\ \A k \in 1..Len(AddedRecords) :
                    \A i \in 1..Len(products) :
                        products[i].id = AddedRecords[k].product_id
                            => products[i].url # u

\* C9 witness: a batch carried a kids candidate for the url of a stored
\* Product, at another price, and the run committed
C9_Witness ==
    /\ LastStored /\ ~lastOp.raised
    /\ \E k \in 1..Len(lastOp.batch) :
          /\ lastOp.batch[k].name \in KidsKeywordNames
          /\ lastOp.batch[k].url \in KidsOnlyUrls(lastOp.batch)
          /\ \E i \in 1..Len(products) :
                /\ products[i].url = lastOp.batch[k].url
                /\ products[i].current_price # <<lastOp.batch[k].price>>

\* C10: an exception of search_brand is not propagated; the term after a
\* raising term is tried; an attempt none of whose terms gives a non-empty
\* filtered result returns the empty list.
C10_SearchErrorsContained ==
    lastOp.kind = "discover" =>
        LET n == Len(lastOp.responses)
        IN  /\ ~lastOp.propagated
            /\ \A i \in 1..n :
                  (lastOp.responses[i].raises /\ i < n
                      /\ \E k \in 1..Len(lastOp.tried) : lastOp.tried[k] = i)
                  => \E k \in 1..Len(lastOp.tried) : lastOp.tried[k] = i + 1
            /\ \A k \in 1..Len(lastOp.tried) : lastOp.tried[k] = k
            /\ (\A i \in 1..n : ~RawNonEmpty(i) \/ MatchingOf(i) = <<>>)
                  => lastOp.batch = <<>>

\* C10 witness: search_brand raised for the canonical name and the alias
\* tried after it gave the result
C10_Witness ==
    /\ lastOp.kind = "discover"
    /\ Len(lastOp.responses) >= 2
    /\ lastOp.responses[1].raises
    /\ lastOp.tried = <<1, 2>>
    /\ lastOp.batch # <<>>
    /\ ~lastOp.propagated


(***************************************************************************)
(* Discovery runs: src/brands/discovery.py discover_single_brand,          *)
(* discover_and_store, and the entry points that start them.  A run works  *)
(* in one session: store_scraped_products commits at its end, and an       *)
(* exception that leaves the run closes the session, which rolls back what *)
(* was flushed since the last commit.                                      *)
(***************************************************************************)

\* src/retailers/__init__.py get_scraper_classes: the slugs with a scraper
\* class, for the scraper types of the model's retailers
ScraperSlugs == {"nrml", "simons"}

\* get_all_scrapers(): one new instance per slug
get_all_scrapers == ScraperSlugs

SKIP_SCRAPERS == {"simons", "ssense", "nordstrom"}

\* routes_dashboard.py _get_working_scrapers (the same filter is written out
\* in main.py and scheduler.py)
_get_working_scrapers == get_all_scrapers \ SKIP_SCRAPERS

\* select(Brand).where(Brand.active.is_(True)).order_by(Brand.name)
ActiveBrands == SelectSeq(Brands, LAMBDA b : b.active)

\* select(Retailer).where(Retailer.active.is_(True)).order_by(Retailer.name)
ActiveRetailers == SelectSeq(Retailers, LAMBDA r : r.active)

\* the stats of discover_single_brand before its loop; `pairs` lists the
\* (brand, retailer) pairs the loop reached (observation only)
BrandStats0 == [products_found |-> 0, new_products |-> 0, retailers_matched |-> 0,
                pairs |-> <<>>]

\* discover_single_brand, lines 255-271: the loop over the active retailers.
\* t is the committed state the session sees; nothing catches an exception
\* of store_scraped_products, so it leaves the loop and the function.
RECURSIVE RetailerLoop(_, _, _, _, _, _, _)
RetailerLoop(t, brand, rets, slugs, responses, now, stats) ==
    IF rets = <<>> THEN [t |-> t, raised |-> FALSE, stats |-> stats]
    ELSE LET retailer == Head(rets)
         IN  IF retailer.scraper_type \notin slugs
             THEN RetailerLoop(t, brand, Tail(rets), slugs, responses, now, stats)
             ELSE LET d == discover_brand_at_retailer(
                               t, brand, retailer, responses[<<brand.id, retailer.id>>])
                      seen == [stats EXCEPT !.pairs = Append(@, <<brand.id, retailer.id>>)]
                  IN  IF d.products = <<>>
                      THEN RetailerLoop(d.t, brand, Tail(rets), slugs, responses, now, seen)
                      ELSE LET res == store_scraped_products(d.t, brand, retailer,
                                                             d.products, now)
                           IN  IF res.raised
                               THEN [t |-> t, raised |-> TRUE, stats |-> seen]
                               ELSE RetailerLoop(
                                        res.t, brand, Tail(rets), slugs, responses, now,
                                        [seen EXCEPT
                                           !.products_found = @ + Len(d.products),
                                           !.new_products = @ + res.new_count,
                                           !.retailers_matched = @ + 1])

discover_single_brand(t, brand, slugs, responses, now) ==
    RetailerLoop(t, brand, ActiveRetailers, slugs, responses, now, BrandStats0)

\* discover_and_store, lines 334-336: the counts of one brand are added
AddBrandStats(stats, brand_stats) ==
    [stats EXCEPT !.products_found = @ + brand_stats.products_found,
                  !.new_products = @ + brand_stats.new_products,
                  !.mappings_created = @ + brand_stats.retailers_matched,
                  !.pairs = @ \o brand_stats.pairs]

\* discover_and_store, lines 332-336: the loop over the active brands; r is
\* what discover_single_brand did for the first of them
RECURSIVE BrandLoop(_, _, _, _, _, _)
BrandStep(r, bs, slugs, responses, now, stats) ==
    IF r.raised
    THEN [t |-> r.t, raised |-> TRUE,
          stats |-> [stats EXCEPT !.pairs = @ \o r.stats.pairs]]
    ELSE BrandLoop(r.t, Tail(bs), slugs, responses, now, AddBrandStats(stats, r.stats))

BrandLoop(t, bs, slugs, responses, now, stats) ==
    IF bs = <<>> THEN [t |-> t, raised |-> FALSE, stats |-> stats]
    ELSE BrandStep(discover_single_brand(t, Head(bs), slugs, responses, now),
                   bs, slugs, responses, now, stats)

discover_and_store(t, slugs, responses, now) ==
    BrandLoop(t, ActiveBrands, slugs, responses, now,
              [brands_checked |-> Len(ActiveBrands), retailers_checked |-> 0,
               mappings_created |-> 0, products_found |-> 0, new_products |-> 0,
               pairs |-> <<>>])

\* the pairs a run with the scrapers `slugs` reaches when nothing stops it
RunPairs(bs, slugs) ==
    {<<bs[i].id, ActiveRetailers[j].id>> :
        i \in 1..Len(bs),
        j \in {k \in 1..Len(ActiveRetailers) : ActiveRetailers[k].scraper_type \in slugs}}

\* what a scraper does for the terms of one pair of a run
RunResponses ==
    LET good == ScrapedProduct(TrailShoe, "u1", PriceRegular, MediaScraped, VendorNikeACG)
        kids == ScrapedProduct(KidsTrailShoe, "u2", PriceSale, MediaScraped, <<>>)
    IN  { SearchRaises, SearchReturns(<<>>), SearchReturns(<<kids>>),
          SearchReturns(<<good>>) }

\* the same answer for every search term of a pair
PerTerm(x) ==
    [pair \in DOMAIN x |->
        [i \in 1..Len(SearchTerms(BrandById(pair[1]))) |-> x[pair]]]

\* the scraper instances of a run: `used` when the run called the scraper
\* (its HTTP client exists), `closed` when the run called close() on it
ScrapersOf(entry, slugs, pairs, closed) ==
    {[entry |-> entry, slug |-> s,
      used |-> \E k \in 1..Len(pairs) : RetailerById(pairs[k][2]).scraper_type = s,
      closed |-> closed] : s \in slugs}

\* what a run leaves behind
RunDone(entry, slugs, x, run, t0, closes) ==
    /\ products' = run.t.products
    /\ price_records' = run.t.price_records
    /\ brand_retailers' = run.t.brand_retailers
    /\ clock' = clock + 1
    /\ scrapers' = scrapers \cup
           ScrapersOf(entry, slugs, run.stats.pairs,
                      closes = "always" \/ (closes = "on_return" /\ ~run.raised))
    /\ UNCHANGED <<alert_events, notifications>>
    /\ UNCHANGED adminVars
    /\ UNCHANGED procVars
    /\ lastOp' = [kind |-> "run", entry |-> entry, slugs |-> slugs, responses |-> x,
                  raised |-> run.raised, returned |-> ~run.raised,
                  stats |-> run.stats, before |-> t0]
    /\ prevOp' = lastOp
    /\ UNCHANGED matchVars

\* main.py _run_discovery_if_needed: discovery at startup when the products
\* table is empty; the scrapers are closed after discover_and_store returned
StartupDiscovery ==
    /\ clock < MaxOps
    /\ products = <<>>
    /\ \E x \in [RunPairs(ActiveBrands, _get_working_scrapers) -> RunResponses] :
          RunDone("startup", _get_working_scrapers, x,
                  discover_and_store(Db, _get_working_scrapers,
                                     PerTerm(x), clock + 1),
                  Db, "on_return")

\* scheduler.py scheduled_discovery: try / except Exception / finally close
ScheduledDiscovery ==
    /\ clock < MaxOps
    /\ \E x \in [RunPairs(ActiveBrands, _get_working_scrapers) -> RunResponses] :
          RunDone("scheduled", _get_working_scrapers, x,
                  discover_and_store(Db, _get_working_scrapers,
                                     PerTerm(x), clock + 1),
                  Db, "always")

\* routes_dashboard.py _discover_all_background: try / except / finally close
DiscoverAllBackground ==
    /\ clock < MaxOps
    /\ \E x \in [RunPairs(ActiveBrands, _get_working_scrapers) -> RunResponses] :
          RunDone("dashboard", _get_working_scrapers, x,
                  discover_and_store(Db, _get_working_scrapers,
                                     PerTerm(x), clock + 1),
                  Db, "always")

\* routes_dashboard.py _discover_brand_background: one brand, try / except /
\* finally close
DiscoverBrandBackground ==
    /\ clock < MaxOps
    /\ \E b \in BrandIds :
       \E x \in [RunPairs(<<BrandById(b)>>, _get_working_scrapers) -> RunResponses] :
          RunDone("brand", _get_working_scrapers, x,
                  discover_single_brand(Db, BrandById(b), _get_working_scrapers,
                                        PerTerm(x), clock + 1),
                  Db, "always")

\* rematch.py trigger_rediscovery: one brand with every scraper; the function
\* has no call of close()
trigger_rediscovery ==
    /\ clock < MaxOps
    /\ \E b \in BrandIds :
       \E x \in [RunPairs(<<BrandById(b)>>, get_all_scrapers) -> RunResponses] :
          RunDone("rediscovery", get_all_scrapers, x,
                  discover_single_brand(Db, BrandById(b), get_all_scrapers,
                                        PerTerm(x), clock + 1),
                  Db, "never")

NextRun ==
    \/ StartupDiscovery
    \/ ScheduledDiscovery
    \/ DiscoverAllBackground
    \/ DiscoverBrandBackground
    \/ trigger_rediscovery

SpecRun == Init /\ [][NextRun]_vars

(***************************************************************************)
(* Properties of the runs (checked under SpecRun).                         *)
(***************************************************************************)
\* the pairs of the last full run
LastRunPairs == RunPairs(ActiveBrands, lastOp.slugs)

\* C11 (as claimed): a full discovery run reaches every (brand, retailer)
\* pair, whatever happens in the search or the storing of another pair, and
\* returns its counts.
C11_PairFailuresContained ==
    (lastOp.kind = "run" /\ lastOp.entry \in {"startup", "scheduled", "dashboard"})
        => /\ {lastOp.stats.pairs[k] : k \in 1..Len(lastOp.stats.pairs)} = LastRunPairs
           /\ lastOp.returned

\* C19 (as claimed): every scraper instance a run created has had close()
\* called on it by the time the run has ended, also when the run raised.
C19_ScrapersClosed ==
    \A sc \in scrapers : sc.closed

\* C21 (as claimed): no discovery run searches a (brand, retailer) pair
\* whose brand or whose retailer is marked inactive.
C21_InactiveNeverSearched ==
    lastOp.kind = "run" =>
        \A k \in 1..Len(lastOp.stats.pairs) :
            /\ BrandById(lastOp.stats.pairs[k][1]).active
            /\ RetailerById(lastOp.stats.pairs[k][2]).active

\* C23 (as claimed): a run that meets an active retailer whose scraper type
\* has no registered scraper ends with an error: it does not return as if
\* the retailer had been searched.
C23_UnknownScraperTypeFatal ==
    ( /\ lastOp.kind = "run"
      /\ \E j \in 1..Len(ActiveRetailers) :
            ActiveRetailers[j].scraper_type \notin ScraperSlugs )
    => ~lastOp.returned


\* C24 (as claimed): the mappings_created of a run of discover_and_store
\* that returned is the number of BrandRetailer rows the run created, also
\* when the pairs it found were associated before.
C24_MappingsCreatedCounted ==
    ( /\ lastOp.kind = "run"
      /\ lastOp.entry \in {"startup", "scheduled", "dashboard"}
      /\ lastOp.returned )
    => lastOp.stats.mappings_created
           = Len(brand_retailers) - Len(lastOp.before.brand_retailers)

\* the runs alone: every state has the kind of its last operation
TypeRun == lastOp.kind \in {"none", "run"}

(***************************************************************************)
(* Python float arithmetic for src/alerts/rules.py line 22:                 *)
(*     pct_change = ((old_price - new_price) / old_price) * 100            *)
(* int / int is the quotient rounded to the nearest binary64 value, and    *)
(* the product with 100 is rounded again (ties to even).  A float is a     *)
(* record [bits, exp]: the significand, most significant bit first and     *)
(* leading with 1, and the exponent of that first bit.                     *)
(***************************************************************************)

\* the significand of a Python float (IEEE-754 binary64)
MantissaBits == 53

\* 2^k mod d, by repeated squaring (d * d stays within the integers)
RECURSIVE Pow2Mod(_, _)
Pow2Mod(k, d) ==
    IF k = 0 THEN 1 % d
    ELSE LET h == Pow2Mod(k \div 2, d)
         IN  (h * h * (IF k % 2 = 1 THEN 2 ELSE 1)) % d

\* the remainder of long division of r by d before its i-th quotient bit,
\* for d <= r < 2d: r itself, then twice the remainder of the step before
DivRemainder(r, d, i) ==
    IF i = 1 THEN r ELSE 2 * (((r % d) * Pow2Mod(i - 2, d)) % d)

\* the first k bits of r / d, and whether the division has come out even
QuotientBits(r, d, k) ==
    [bits |-> [i \in 1..k |-> IF DivRemainder(r, d, i) >= d THEN 1 ELSE 0],
     rem |-> DivRemainder(r, d, k + 1)]

\* the number of doublings that bring n up to d (0 < n <= d)
RECURSIVE ShiftsTo(_, _)
ShiftsTo(n, d) == IF n >= d THEN 0 ELSE 1 + ShiftsTo(2 * n, d)

RECURSIVE Doubled(_, _)
Doubled(n, k) == IF k = 0 THEN n ELSE Doubled(2 * n, k - 1)

\* bits + 1, for bits that are not all ones: the last 0 becomes 1 and the
\* ones behind it 0
IncBits(bits) ==
    LET n == Len(bits)
        j == CHOOSE z \in 1..n : bits[z] = 0 /\ \A k \in (z + 1)..n : bits[k] = 1
    IN  [i \in 1..n |-> IF i < j THEN bits[i] ELSE IF i = j THEN 1 ELSE 0]

\* round a significand of more than MantissaBits bits to nearest, ties to
\* even; `inexact` says that digits beyond `bits` are not all zero
RoundFloat(bits, exp, inexact) ==
    LET keep == SubSeq(bits, 1, MantissaBits)
        guard == bits[MantissaBits + 1]
        sticky == inexact \/ \E i \in (MantissaBits + 2)..Len(bits) : bits[i] = 1
        up == guard = 1 /\ (sticky \/ keep[MantissaBits] = 1)
    IN  IF ~up THEN [bits |-> keep, exp |-> exp]
        ELSE IF \A i \in 1..MantissaBits : keep[i] = 1
        THEN [bits |-> [i \in 1..MantissaBits |-> IF i = 1 THEN 1 ELSE 0], exp |-> exp + 1]
        ELSE [bits |-> IncBits(keep), exp |-> exp]

\* n / d for integers 0 < n <= d
FloatDiv(n, d) ==
    LET s == ShiftsTo(n, d)
        q == QuotientBits(Doubled(n, s), d, MantissaBits + 1)
    IN  RoundFloat(q.bits, 0 - s, q.rem # 0)

\* the carry into position i of a + b (bit sequences of one length, most
\* significant bit first): some lower position generates a carry and every
\* position between passes it on
CarryInto(a, b, i) ==
    \E j \in (i + 1)..Len(a) :
        /\ a[j] = 1 /\ b[j] = 1
        /\ \A k \in (i + 1)..(j - 1) : a[k] + b[k] = 1

\* a + b, one bit longer when the sum carries out of the first position
AddBits(a, b) ==
    LET sum == [i \in 1..Len(a) |->
                   (a[i] + b[i] + (IF CarryInto(a, b, i) THEN 1 ELSE 0)) % 2]
    IN  IF CarryInto(a, b, 0) THEN <<1>> \o sum ELSE sum

\* bits with k zeros in front and z zeros behind
Padded(k, bits, z) == [i \in 1..k |-> 0] \o bits \o [i \in 1..z |-> 0]

\* x * 100, with 100 = 64 + 32 + 4
FloatTimes100(x) ==
    LET a == AddBits(Padded(0, x.bits, 6), Padded(1, x.bits, 5))
        b == AddBits(a, Padded(Len(a) - Len(x.bits) - 2, x.bits, 2))
    IN  RoundFloat(b, x.exp + (Len(b) - MantissaBits), FALSE)

RECURSIVE BitsToNat(_)
BitsToNat(bits) ==
    IF bits = <<>> THEN 0
    ELSE 2 * BitsToNat(SubSeq(bits, 1, Len(bits) - 1)) + bits[Len(bits)]

\* x >= t for a float x > 0 and a whole number t >= 0 (as a float): the
\* comparison of the integer part decides
FloatAtLeast(x, t) ==
    (IF x.exp < 0 THEN 0 ELSE BitsToNat(SubSeq(x.bits, 1, x.exp + 1))) >= t

\* line 22, for old_price > new_price >= 0
pct_change(old_price, new_price) ==
    FloatTimes100(FloatDiv(old_price - new_price, old_price))

(***************************************************************************)
(* src/alerts/rules.py check_price_alert                                   *)
(***************************************************************************)

\* the AlertRule rows of the model: per brand, per product and global rules
\* of the three conditions (threshold_pct holds whole numbers)
AlertRule(id, brand_id, product_id, condition, pct, amount, dashboard, active) ==
    [id |-> id, brand_id |-> brand_id, product_id |-> product_id,
     condition |-> condition, threshold_pct |-> pct, threshold_amount |-> amount,
     notify_email |-> TRUE, notify_dashboard |-> dashboard, active |-> active]

AlertRules ==
    << AlertRule(1, <<1>>, <<>>, "pct_drop", 10, 0, TRUE, TRUE),
       AlertRule(2, <<>>, <<>>, "any_sale", 10, 0, FALSE, TRUE),
       AlertRule(3, <<>>, <<1>>, "absolute_drop", 10, 29, TRUE, TRUE),
       AlertRule(4, <<1>>, <<>>, "pct_drop", 29, 0, TRUE, TRUE),
       AlertRule(5, <<2>>, <<>>, "pct_drop", 10, 0, TRUE, TRUE),
       AlertRule(6, <<>>, <<>>, "any_sale", 10, 0, TRUE, FALSE),
       AlertRule(7, <<1>>, <<2>>, "absolute_drop", 10, 0, TRUE, TRUE),
       AlertRule(8, <<1>>, <<>>, "pct_drop", 50, 0, TRUE, TRUE) >>

\* the tables a price-check session works on
PriceTables(p, pr, ev, nt) ==
    [products |-> p, price_records |-> pr, alert_events |-> ev, notifications |-> nt]

\* lines 25-34: the WHERE clause (a comparison with NULL selects nothing)
RuleSelected(rule, product) ==
    /\ rule.active
    /\ \/ rule.product_id = <<product.id>>
       \/ rule.brand_id = <<product.brand_id>>
       \/ (rule.brand_id = <<>> /\ rule.product_id = <<>>)

\* the prices of the model, in cents
ModelPrices == {0, 50, 71, 80, 100, 120}

\* pct_change, evaluated once for each drop between two prices of the model
PctChanges ==
    {[old_price |-> d[1], new_price |-> d[2], pct |-> pct_change(d[1], d[2])] :
        d \in {q \in ModelPrices \X ModelPrices : q[1] > q[2]}}

\* line 22, read from the values above
PctChangeOf(old_price, new_price) ==
    (CHOOSE e \in PctChanges :
        e.old_price = old_price /\ e.new_price = new_price).pct

\* lines 37-44
RuleTriggered(rule, old_price, new_price) ==
    IF rule.condition = "any_sale" /\ new_price < old_price THEN TRUE
    ELSE IF rule.condition = "pct_drop"
            /\ FloatAtLeast(PctChangeOf(old_price, new_price), rule.threshold_pct)
    THEN TRUE
    ELSE rule.condition = "absolute_drop"
            /\ (old_price - new_price) >= rule.threshold_amount

\* lines 46-69: the AlertEvent of a triggered rule, and its Notification when
\* the rule notifies the dashboard (pct_change, rounded for display, and the
\* message texts are left out)
RecordEvent(t, rule, product, old_price, new_price) ==
    LET event == [id |-> NextId(t.alert_events), rule_id |-> rule.id,
                  product_id |-> product.id, old_price |-> old_price,
                  new_price |-> new_price, sent_email |-> FALSE]
        t1 == [t EXCEPT !.alert_events = Append(@, event)]
    IN  IF rule.notify_dashboard
        THEN [t1 EXCEPT !.notifications =
                 Append(@, [id |-> NextId(t.notifications),
                            alert_event_id |-> event.id, read |-> FALSE])]
        ELSE t1

\* lines 36-69: the loop over the selected rules
RECURSIVE RuleLoop(_, _, _, _, _, _)
RuleLoop(t, rules, product, old_price, new_price, events) ==
    IF rules = <<>> THEN [t |-> t, events |-> events]
    ELSE IF RuleTriggered(Head(rules), old_price, new_price)
    THEN RuleLoop(RecordEvent(t, Head(rules), product, old_price, new_price),
                  Tail(rules), product, old_price, new_price,
                  Append(events, NextId(t.alert_events)))
    ELSE RuleLoop(t, Tail(rules), product, old_price, new_price, events)

\* check_price_alert: the session's tables afterwards and the ids of the
\* events it returns; it commits when there is one
check_price_alert(t, product, old_price, new_price) ==
    IF old_price <= 0 \/ new_price >= old_price THEN [t |-> t, events |-> <<>>]
    ELSE RuleLoop(t, SelectSeq(AlertRules, LAMBDA rule : RuleSelected(rule, product)),
                  product, old_price, new_price, <<>>)

(***************************************************************************)
(* src/tracking/price_checker.py check_product_price, check_all_prices     *)
(***************************************************************************)

\* what scraper.get_price(url) does: it raises, returns None, or returns a
\* ScrapedPrice(price, original_price, on_sale, currency, available)
GetPriceRaises == [kind |-> "raises"]

GetPriceNone == [kind |-> "none"]

ScrapedPrice(price, original_price, on_sale, available) ==
    [kind |-> "price", price |-> price, original_price |-> original_price,
     on_sale |-> on_sale, currency |-> "CAD", available |-> available]

\* what send_alert does with the events of one product: nothing to send,
\* the e-mail goes out (sent_email is set), or it raises
SendOutcomes == {"not_sent", "sent", "raises"}

\* the result of check_product_price when it returns None before scraping
\* succeeded
NotChecked(t, i) ==
    [t |-> t, record |-> <<>>, raised |-> FALSE, alerted |-> FALSE,
     steps |-> <<>>, product_id |-> t.products[i].id]

\* mutant: the Product keeps its on_sale flag
ApplyPrice_KeepsOnSale(t, i, result, now) ==
    [t EXCEPT
       !.price_records =
           Append(@, [id |-> NextId(t.price_records),
                      product_id |-> t.products[i].id,
                      price |-> result.price,
                      original_price |-> result.original_price,
                      on_sale |-> result.on_sale,
                      currency |-> result.currency]),
       !.products[i] = [@ EXCEPT !.current_price = <<result.price>>,
                                 !.original_price = result.original_price,
                                 !.last_checked = <<now>>]]

\* lines 35-47: the new PriceRecord and the Product's price fields
ApplyPrice(t, i, result, now) ==
    [t EXCEPT
       !.price_records =
           Append(@, [id |-> NextId(t.price_records),
                      product_id |-> t.products[i].id,
                      price |-> result.price,
                      original_price |-> result.original_price,
                      on_sale |-> result.on_sale,
                      currency |-> result.currency]),
       !.products[i] = [@ EXCEPT !.current_price = <<result.price>>,
                                 !.original_price = result.original_price,
                                 !.on_sale = result.on_sale,
                                 !.last_checked = <<now>>]]

\* lines 51-52 of check_product_price with notifier.py send_alert
SendAlerts(t, events, send) ==
    IF send # "sent" THEN t
    ELSE [t EXCEPT !.alert_events =
             [k \in 1..Len(@) |->
                 IF \E e \in 1..Len(events) : events[e] = @[k].id
                 THEN [@[k] EXCEPT !.sent_email = TRUE] ELSE @[k]]]

\* lines 50-54: a is what check_price_alert did.  It commits when it
\* recorded an event, so an exception of send_alert loses only what
\* send_alert itself changed.
AlertsSent(a, rec, product_id, send) ==
    IF a.events = <<>>
    THEN [t |-> a.t, record |-> <<rec>>, raised |-> FALSE, alerted |-> TRUE,
          steps |-> <<"add_record", "update_product", "check_price_alert", "commit">>,
          product_id |-> product_id]
    ELSE IF send = "raises"
    THEN [t |-> a.t, record |-> <<rec>>, raised |-> TRUE, alerted |-> TRUE,
          steps |-> <<"add_record", "update_product", "check_price_alert",
                      "send_alert">>,
          product_id |-> product_id]
    ELSE [t |-> SendAlerts(a.t, a.events, send), record |-> <<rec>>,
          raised |-> FALSE, alerted |-> TRUE,
          steps |-> <<"add_record", "update_product", "check_price_alert",
                      "send_alert", "commit">>,
          product_id |-> product_id]

\* lines 33-56, after a successful scrape; `lower` is the comparison of the
\* new price with the old one at line 49
PriceChecked(t, i, result, send, now, lower) ==
    LET product == t.products[i]
        old_price == IF product.current_price = <<>> THEN 0
                     ELSE product.current_price[1]
        t1 == ApplyPrice(t, i, result, now)
        rec == NextId(t.price_records)
    IN  IF old_price > 0 /\ lower
        THEN AlertsSent(check_price_alert(t1, t1.products[i], old_price, result.price),
                        rec, product.id, send)
        ELSE [t |-> t1, record |-> <<rec>>, raised |-> FALSE, alerted |-> FALSE,
              steps |-> <<"add_record", "update_product", "commit">>,
              product_id |-> product.id]

\* mutant: the alert rules are evaluated when the price has not risen
check_product_price_NotHigher(t, i, outcome, send, now) ==
    IF outcome.kind = "raises" THEN NotChecked(t, i)
    ELSE IF outcome.kind = "none" \/ ~outcome.available THEN NotChecked(t, i)
    ELSE PriceChecked(t, i, outcome, send, now,
                      t.products[i].current_price # <<>>
                          /\ outcome.price <= t.products[i].current_price[1])

\* check_product_price for the product at position i of the table
check_product_price(t, i, outcome, send, now) ==
    IF outcome.kind = "raises" THEN NotChecked(t, i)
    ELSE IF outcome.kind = "none" \/ ~outcome.available THEN NotChecked(t, i)
    ELSE PriceChecked(t, i, outcome, send, now,
                      t.products[i].current_price # <<>>
                          /\ outcome.price < t.products[i].current_price[1])

\* what one call of check_product_price did (observation only)
CallOf(r, outcome) ==
    [product_id |-> r.product_id, outcome |-> outcome, record |-> r.record,
     alerted |-> r.alerted, steps |-> r.steps, raised |-> r.raised]

RECURSIVE CheckLoop(_, _, _, _, _, _, _, _)

\* mutant: a product that could not be checked ends the batch
CheckStep_StopsAtFailure(r, todo, slugs, outcomes, send, now, checked, calls) ==
    IF r.raised \/ r.record = <<>>
    THEN [t |-> r.t, raised |-> r.raised, checked |-> checked,
          calls |-> Append(calls, CallOf(r, outcomes[Head(todo)]))]
    ELSE CheckLoop(r.t, Tail(todo), slugs, outcomes, send, now, checked + 1,
                   Append(calls, CallOf(r, outcomes[Head(todo)])))

\* check_all_prices, lines 78-80: r is what check_product_price did for the
\* first product of `todo`; its exception leaves the loop
CheckStep(r, todo, slugs, outcomes, send, now, checked, calls) ==
    IF r.raised
    THEN [t |-> r.t, raised |-> TRUE, checked |-> checked,
          calls |-> Append(calls, CallOf(r, outcomes[Head(todo)]))]
    ELSE CheckLoop(r.t, Tail(todo), slugs, outcomes, send, now,
                   IF r.record # <<>> THEN checked + 1 ELSE checked,
                   Append(calls, CallOf(r, outcomes[Head(todo)])))

\* the position of the product with the given id
PositionOf(rows, id) == CHOOSE k \in 1..Len(rows) : rows[k].id = id

\* check_all_prices, lines 70-80: the loop over the tracked products loaded
\* at lines 63-68 (`todo` holds their ids); `calls` lists what each call of
\* check_product_price did
CheckLoop(t, todo, slugs, outcomes, send, now, checked, calls) ==
    IF todo = <<>> THEN [t |-> t, raised |-> FALSE, checked |-> checked, calls |-> calls]
    ELSE IF RetailerById(t.products[PositionOf(t.products, Head(todo))].retailer_id)
                .scraper_type \notin slugs
    THEN CheckLoop(t, Tail(todo), slugs, outcomes, send, now, checked, calls)
    ELSE CheckStep(check_product_price(t, PositionOf(t.products, Head(todo)),
                                       outcomes[Head(todo)], send, now),
                   todo, slugs, outcomes, send, now, checked, calls)

\* select(Product).where(Product.tracked.is_(True)): the ids, in table order
TrackedIds(rows) ==
    LET tracked == SelectSeq(rows, LAMBDA row : row.tracked)
    IN  [k \in 1..Len(tracked) |-> tracked[k].id]

check_all_prices(t, slugs, outcomes, send, now) ==
    CheckLoop(t, TrackedIds(t.products), slugs, outcomes, send, now, 0, <<>>)

\* what get_price answers in the model
PriceOutcomes ==
    { GetPriceRaises, GetPriceNone,
      ScrapedPrice(50, <<>>, FALSE, FALSE),
      ScrapedPrice(71, <<100>>, TRUE, TRUE),
      ScrapedPrice(100, <<>>, FALSE, TRUE) }

\* the tables before an operation, for lastOp
TablesBefore ==
    [products |-> products, price_records |-> price_records,
     brand_retailers |-> brand_retailers, alert_events |-> alert_events,
     notifications |-> notifications]

\* whether a call of the batch went to the scraper with the given slug
CalledScraper(calls, slug) ==
    \E k \in 1..Len(calls) :
        RetailerById(products[PositionOf(products, calls[k].product_id)]
                         .retailer_id).scraper_type = slug

\* what a run of check_all_prices (res) leaves behind
PriceCheckDone(outcomes, send, res) ==
    /\ products' = res.t.products
    /\ price_records' = res.t.price_records
    /\ alert_events' = res.t.alert_events
    /\ notifications' = res.t.notifications
    /\ clock' = clock + 1
    /\ scrapers' = scrapers \cup
           {[entry |-> "price_check", slug |-> sl,
             used |-> CalledScraper(res.calls, sl),
             closed |-> TRUE] : sl \in get_all_scrapers}
    /\ lastOp' = [kind |-> "price_check", outcomes |-> outcomes, send |-> send,
                  raised |-> res.raised, checked |-> res.checked,
                  calls |-> res.calls, stored |-> FALSE, before |-> TablesBefore]
    /\ prevOp' = lastOp
    /\ UNCHANGED brand_retailers
    /\ UNCHANGED adminVars
    /\ UNCHANGED procVars
    /\ UNCHANGED matchVars

\* scheduler.py scheduled_price_check: check_all_prices with every scraper,
\* which are closed in a finally block
ScheduledPriceCheck ==
    /\ clock < MaxOps
    /\ products # <<>>
    /\ \E outcomes \in [{products[k].id : k \in 1..Len(products)} -> PriceOutcomes],
          send \in SendOutcomes :
          PriceCheckDone(outcomes, send,
                         check_all_prices(
                             PriceTables(products, price_records, alert_events,
                                         notifications),
                             get_all_scrapers, outcomes, send, clock + 1))

\* the old and new prices check_price_alert is called with directly
AlertPrices == {0, 71, 80, 100}

\* what a call of check_price_alert (a) leaves behind
AlertDone(product, old_price, new_price, a) ==
    /\ alert_events' = a.t.alert_events
    /\ notifications' = a.t.notifications
    /\ clock' = clock + 1
    /\ lastOp' = [kind |-> "alert", product |-> product,
                  old_price |-> old_price, new_price |-> new_price,
                  events |-> a.events, stored |-> FALSE, before |-> TablesBefore]
    /\ prevOp' = lastOp
    /\ UNCHANGED <<products, price_records, brand_retailers, scrapers>>
    /\ UNCHANGED adminVars
    /\ UNCHANGED procVars
    /\ UNCHANGED matchVars

\* a call of check_price_alert on a stored product
EvaluateAlert ==
    /\ clock < MaxOps
    /\ \E i \in 1..Len(products), old_price \in AlertPrices, new_price \in AlertPrices :
          AlertDone(products[i], old_price, new_price,
                    check_price_alert(
                        PriceTables(products, price_records, alert_events, notifications),
                        products[i], old_price, new_price))

NextPrice ==
    \/ IngestBatch
    \/ DiscoverPair
    \/ CreateProduct
    \/ ScheduledPriceCheck
    \/ EvaluateAlert

SpecPrice == Init /\ [][NextPrice]_vars

(***************************************************************************)
(* Properties of price checks and alert rules (checked under SpecPrice).   *)
(***************************************************************************)
\* the row of a table with the given id
RowById(rows, id) == CHOOSE row \in Range(rows) : row.id = id

\* the price history of one product, oldest first
HistoryOf(records, product_id) ==
    SelectSeq(records, LAMBDA rec : rec.product_id = product_id)

\* the most recent operation was a run of check_all_prices
LastPriceCheck == lastOp.kind = "price_check"

\* get_price raised, returned None, or returned an unavailable result
ScrapeFailed(outcome) ==
    IF outcome.kind = "price" THEN ~outcome.available ELSE TRUE

\* C12: a product whose get_price raised, returned None or returned an
\* unavailable result in a run of check_all_prices got no PriceRecord and
\* kept its row (current_price, original_price, on_sale, last_checked and
\* tracked included), and the tracked product after it was checked.
C12_FailedScrapeSkipsProduct ==
    LastPriceCheck =>
        LET todo == TrackedIds(lastOp.before.products)
        IN  \A k \in 1..Len(lastOp.calls) :
                LET call == lastOp.calls[k]
                IN  ScrapeFailed(call.outcome) =>
                        /\ call.record = <<>>
                        /\ HistoryOf(price_records, call.product_id)
                               = HistoryOf(lastOp.before.price_records, call.product_id)
                        /\ RowById(products, call.product_id)
                               = RowById(lastOp.before.products, call.product_id)
                        /\ k < Len(todo) =>
                               /\ Len(lastOp.calls) > k
                               /\ lastOp.calls[k + 1].product_id = todo[k + 1]

\* C12 witness: a run in which a product that had a price could not be
\* scraped, and the product after it got a new PriceRecord
C12_Witness ==
    /\ LastPriceCheck
    /\ \E k \in 1..(Len(lastOp.calls) - 1) :
          /\ ScrapeFailed(lastOp.calls[k].outcome)
          /\ lastOp.calls[k].outcome.kind = "price"
          /\ RowById(products, lastOp.calls[k].product_id).current_price # <<>>
          /\ lastOp.calls[k + 1].record # <<>>

\* the position of a step in the steps of one call, 0 when it is not there
StepAt(steps, name) ==
    IF \E j \in 1..Len(steps) : steps[j] = name
    THEN CHOOSE j \in 1..Len(steps) : steps[j] = name
    ELSE 0

\* C13: check_product_price evaluates the alert rules only when the new
\* price is strictly lower than the product's previous current_price, and
\* then after it added the PriceRecord and updated the product and before
\* its final commit.
C13_AlertsOnlyOnLowerPrice ==
    LastPriceCheck =>
        \A k \in 1..Len(lastOp.calls) :
            LET call == lastOp.calls[k]
                previous == RowById(lastOp.before.products, call.product_id).current_price
                at == StepAt(call.steps, "check_price_alert")
            IN  /\ call.alerted <=> at > 0
                /\ call.alerted =>
                      /\ call.outcome.kind = "price"
                      /\ previous # <<>>
                      /\ call.outcome.price < previous[1]
                      /\ StepAt(call.steps, "add_record") \in 1..(at - 1)
                      /\ StepAt(call.steps, "update_product") \in 1..(at - 1)
                      /\ StepAt(call.steps, "commit") \in {0} \cup (at + 1)..Len(call.steps)
                /\ StepAt(call.steps, "commit") \in {0, Len(call.steps)}

\* C13 witness: a lower price was scraped, the rules were evaluated and an
\* AlertEvent was recorded for the product before the call committed
C13_Witness ==
    /\ LastPriceCheck
    /\ \E k \in 1..Len(lastOp.calls) :
          /\ lastOp.calls[k].alerted
          /\ StepAt(lastOp.calls[k].steps, "commit") > 0
          /\ \E e \in 1..Len(alert_events) :
                /\ e > Len(lastOp.before.alert_events)
                /\ alert_events[e].product_id = lastOp.calls[k].product_id

\* the claim's scope of a rule: it names the product, names the product's
\* brand, or is global
InScope(rule, product) ==
    \/ rule.product_id = <<product.id>>
    \/ rule.brand_id = <<product.brand_id>>
    \/ (rule.brand_id = <<>> /\ rule.product_id = <<>>)

\* the claim's conditions on a drop from old_price to new_price, in exact
\* arithmetic: any drop; percentage drop >= threshold_pct; absolute drop >=
\* threshold_amount
ConditionHolds(rule, old_price, new_price) ==
    \/ rule.condition = "any_sale"
    \/ /\ rule.condition = "pct_drop"
       /\ 100 * (old_price - new_price) >= rule.threshold_pct * old_price
    \/ /\ rule.condition = "absolute_drop"
       /\ old_price - new_price >= rule.threshold_amount

\* C14 (as claimed): a call of check_price_alert records, when old > 0 and
\* new < old, exactly one AlertEvent (for the product and the two prices) for
\* each active rule in scope whose condition holds, and none for any other
\* rule; when new >= old or old <= 0 it records nothing.
C14_OneEventPerTriggeredRule ==
    lastOp.kind = "alert" =>
        LET added == SubSeq(alert_events, Len(lastOp.before.alert_events) + 1,
                            Len(alert_events))
            dropped == lastOp.old_price > 0 /\ lastOp.new_price < lastOp.old_price
        IN  /\ \A e \in 1..Len(added) :
                  /\ added[e].product_id = lastOp.product.id
                  /\ added[e].old_price = lastOp.old_price
                  /\ added[e].new_price = lastOp.new_price
            /\ \A r \in 1..Len(AlertRules) :
                  Cardinality({e \in 1..Len(added) : added[e].rule_id = AlertRules[r].id})
                      = IF /\ dropped
                           /\ AlertRules[r].active
                           /\ InScope(AlertRules[r], lastOp.product)
                           /\ ConditionHolds(AlertRules[r], lastOp.old_price,
                                             lastOp.new_price)
                        THEN 1 ELSE 0

\* the successful scrapes of a stored product in the most recent operation:
\* the surviving candidates for its url that store_scraped_products was
\* handed, or the available price a price check got for it
ScrapesOf(product) ==
    IF LastStored
    THEN Len(SelectSeq(Survivors(lastOp.batch), LAMBDA sp : sp.url = product.url))
    ELSE IF LastPriceCheck
    THEN Cardinality({k \in 1..Len(lastOp.calls) :
                         /\ lastOp.calls[k].product_id = product.id
                         /\ ~ScrapeFailed(lastOp.calls[k].outcome)})
    ELSE 0

\* C15 (as claimed): an ingestion, discovery or price-check operation leaves
\* every PriceRecord it found as it was, and the history of each Product
\* that exists grows by exactly one appended record per successful scrape of
\* that product.
C15_HistoryGrowsPerScrape ==
    lastOp.kind \in {"store", "discover", "price_check"} =>
        LET old == lastOp.before.price_records
        IN  /\ Len(price_records) >= Len(old)
            /\ SubSeq(price_records, 1, Len(old)) = old
            /\ \A i \in 1..Len(lastOp.before.products) :
                  LET product == lastOp.before.products[i]
                  IN  Len(HistoryOf(price_records, product.id))
                          = Len(HistoryOf(old, product.id)) + ScrapesOf(product)

\* the most recently appended PriceRecord of a product that has one
LatestRecord(records, product_id) ==
    HistoryOf(records, product_id)[Len(HistoryOf(records, product_id))]

\* C27: after ingestion and price-check operations, every Product that has
\* a PriceRecord has a current_price, and its current_price, original_price
\* and on_sale are those of its most recently appended PriceRecord.
C27_ProductMirrorsLatestRecord ==
    \A i \in 1..Len(products) :
        HistoryOf(price_records, products[i].id) # <<>> =>
            /\ products[i].current_price
                   = <<LatestRecord(price_records, products[i].id).price>>
            /\ products[i].original_price
                   = LatestRecord(price_records, products[i].id).original_price
            /\ products[i].on_sale
                   = LatestRecord(price_records, products[i].id).on_sale

\* C27 witness: a price check gave a product that already had a record a
\* second one with another price, original_price and on_sale
C27_Witness ==
    /\ LastPriceCheck
    /\ \E i \in 1..Len(products) :
          LET history == HistoryOf(price_records, products[i].id)
          IN  /\ Len(history) >= 2
              /\ history[Len(history)].id > Len(lastOp.before.price_records)
              /\ history[Len(history)].price # history[Len(history) - 1].price
              /\ history[Len(history)].on_sale # history[Len(history) - 1].on_sale
              /\ history[Len(history)].original_price
                     # history[Len(history) - 1].original_price

\* C30 (as claimed): an AlertEvent of a rule that names a product is an event
\* for that product, whatever the rule's brand_id is.
C30_ProductRuleStaysOnProduct ==
    \A e \in 1..Len(alert_events) :
        \A r \in 1..Len(AlertRules) :
            (AlertRules[r].id = alert_events[e].rule_id
             /\ AlertRules[r].product_id # <<>>)
                => AlertRules[r].product_id = <<alert_events[e].product_id>>

(***************************************************************************)
(* Admin operations: the delete endpoints, the brand edits and             *)
(* src/brands/rematch.py.  No alert has fired in these runs, so the alert  *)
(* tables stay empty.                                                      *)
(***************************************************************************)
MaxAdminOps == 3

\* whether a table has a row with the given id (session.get(...) is not None)
HasId(rows, id) == \E i \in 1..Len(rows) : rows[i].id = id

\* session.delete(product) for the products with the given ids: the ORM
\* follows Product.price_records (cascade="all, delete-orphan", models.py
\* 120-122) and deletes the PriceRecords of each product with it
DeleteProductsCascade(t, ids) ==
    [t EXCEPT !.products = SelectSeq(@, LAMBDA row : row.id \notin ids),
              !.price_records = SelectSeq(@, LAMBDA rec : rec.product_id \notin ids)]

\* the ids of a brand's, and of a retailer's, products
ProductIdsOfBrand(rows, brand_id) ==
    {rows[i].id : i \in {k \in 1..Len(rows) : rows[k].brand_id = brand_id}}

ProductIdsOfRetailer(rows, retailer_id) ==
    {rows[i].id : i \in {k \in 1..Len(rows) : rows[k].retailer_id = retailer_id}}

\* what an admin operation leaves in lastOp
AdminOp(kind, id, found, raised) ==
    [kind |-> kind, id |-> id, found |-> found, raised |-> raised, stored |-> FALSE,
     before |-> Tables(products, price_records, brand_retailers),
     brands_before |-> brands]

\* the common frame of the admin operations
AdminStep(op) ==
    /\ clock < MaxAdminOps
    /\ clock' = clock + 1
    /\ lastOp' = op
    /\ prevOp' = lastOp
    /\ UNCHANGED matchVars
    /\ UNCHANGED <<scrapers, alert_events, notifications>>
    /\ UNCHANGED procVars

\* store_scraped_products for a brand and a retailer that are stored
IngestStored ==
    /\ IngestBatch
    /\ HasId(brands, lastOp'.brand)
    /\ HasId(retailers, lastOp'.retailer)

\* DELETE /api/products/{product_id}
delete_product ==
    \E product_id \in 1..2 :
        LET t0 == Tables(products, price_records, brand_retailers)
            found == HasId(products, product_id)
            t1 == IF found THEN DeleteProductsCascade(t0, {product_id}) ELSE t0
        IN  /\ AdminStep(AdminOp("delete_product", product_id, found, FALSE))
            /\ products' = t1.products
            /\ price_records' = t1.price_records
            /\ UNCHANGED <<brand_retailers, brands, retailers>>

\* DELETE /api/brands/{brand_id} and POST /brands/{brand_id}/delete: the ORM
\* follows Brand.products and Brand.brand_retailers (models.py 37-45)
delete_brand ==
    \E brand_id \in BrandIds :
        LET t0 == Tables(products, price_records, brand_retailers)
            found == HasId(brands, brand_id)
            t1 == DeleteProductsCascade(t0, ProductIdsOfBrand(products, brand_id))
        IN  /\ AdminStep(AdminOp("delete_brand", brand_id, found, FALSE))
            /\ products' = IF found THEN t1.products ELSE products
            /\ price_records' = IF found THEN t1.price_records ELSE price_records
            /\ brand_retailers' =
                   IF found
                   THEN SelectSeq(brand_retailers, LAMBDA row : row.brand_id # brand_id)
                   ELSE brand_retailers
            /\ brands' = SelectSeq(brands, LAMBDA row : row.id # brand_id)
            /\ UNCHANGED retailers

\* POST /retailers/{retailer_id}/delete: the ORM follows Retailer.products
\* and Retailer.brand_retailers (models.py 62-67)
delete_retailer ==
    \E retailer_id \in RetailerIds :
        LET t0 == Tables(products, price_records, brand_retailers)
            found == HasId(retailers, retailer_id)
            t1 == DeleteProductsCascade(t0, ProductIdsOfRetailer(products, retailer_id))
        IN  /\ AdminStep(AdminOp("delete_retailer", retailer_id, found, FALSE))
            /\ products' = IF found THEN t1.products ELSE products
            /\ price_records' = IF found THEN t1.price_records ELSE price_records
            /\ brand_retailers' =
                   IF found
                   THEN SelectSeq(brand_retailers,
                                  LAMBDA row : row.retailer_id # retailer_id)
                   ELSE brand_retailers
            /\ retailers' = SelectSeq(retailers, LAMBDA row : row.id # retailer_id)
            /\ UNCHANGED brands

\* rematch.py rematch_brand_products, lines 29-46.  Line 41 is a bulk
\* DELETE on the products table: no relationship cascade runs, and the
\* foreign key of price_records.product_id has no ON DELETE (models.py
\* 126-128).  Where the database enforces foreign keys the statement fails
\* for a product with history; SQLite, the configured default, does not
\* enforce them (db/session.py sets only journal_mode) and the PriceRecords
\* stay behind.
rematch_brand_products(t, brand, enforced) ==
    LET ids == ProductIdsOfBrand(t.products, brand.id)
    IN  IF ids = {} THEN [t |-> t, raised |-> FALSE, deleted |-> 0]
        ELSE IF enforced /\ \E k \in 1..Len(t.price_records) :
                                t.price_records[k].product_id \in ids
        THEN [t |-> t, raised |-> TRUE, deleted |-> 0]
        ELSE [t |-> [t EXCEPT !.products =
                         SelectSeq(@, LAMBDA row : row.brand_id # brand.id)],
              raised |-> FALSE, deleted |-> Cardinality(ids)]

\* a call of rematch_brand_products for a stored brand
RematchBrand ==
    \E i \in 1..Len(brands), enforced \in BOOLEAN :
        LET t0 == Tables(products, price_records, brand_retailers)
            res == rematch_brand_products(t0, brands[i], enforced)
        IN  /\ AdminStep(AdminOp("rematch", brands[i].id, TRUE, res.raised))
            /\ products' = res.t.products
            /\ UNCHANGED <<price_records, brand_retailers, brands, retailers>>

\* str.strip() on the characters of the model
RECURSIVE LStrip(_)
LStrip(s) == IF s # <<>> /\ Head(s) = " " THEN LStrip(Tail(s)) ELSE s

RECURSIVE RStrip(_)
RStrip(s) ==
    IF s # <<>> /\ s[Len(s)] = " " THEN RStrip(SubSeq(s, 1, Len(s) - 1)) ELSE s

Strip(s) == RStrip(LStrip(s))

\* str.split(",")
RECURSIVE SplitComma(_, _, _)
SplitComma(s, part, parts) ==
    IF s = <<>> THEN Append(parts, part)
    ELSE IF Head(s) = "," THEN SplitComma(Tail(s), <<>>, Append(parts, part))
    ELSE SplitComma(Tail(s), Append(part, Head(s)), parts)

\* routes_dashboard.py line 287:
\* [a.strip() for a in aliases.split(",") if a.strip()]
ParseAliases(field) ==
    LET parts == SplitComma(field, <<>>, <<>>)
        stripped == [k \in 1..Len(parts) |-> Strip(parts[k])]
    IN  SelectSeq(stripped, LAMBDA a : a # <<>>)

\* the `aliases` form field of the brand edit page
AliasFields ==
    { <<>>,
      <<"N","i","k","e"," ","A","c","g">>,
      <<" ","A","C","G"," ",","," ",",","N","i","k","e"," ","A","c","g">> }

\* the `aliases` of a PATCH body: absent (None), or a list
AliasLists ==
    { <<>>, << <<>> >>, << << <<"A","C","G">> >> >> }

\* POST /brands/{brand_id}/edit (routes_dashboard.py edit_brand_submit) with
\* the name left as it is: the aliases are replaced and the brand is
\* committed; the products of the brand are not touched
edit_brand_submit ==
    \E i \in 1..Len(brands), field \in AliasFields :
        /\ AdminStep(AdminOp("edit_brand", brands[i].id, TRUE, FALSE))
        /\ brands' = [brands EXCEPT ![i].aliases = ParseAliases(field)]
        /\ UNCHANGED <<products, price_records, brand_retailers, retailers>>

\* PATCH /api/brands/{brand_id} (routes_brands.py update_brand) with a body
\* that carries at most `aliases`
update_brand ==
    \E i \in 1..Len(brands), aliases \in AliasLists :
        /\ AdminStep(AdminOp("edit_brand", brands[i].id, TRUE, FALSE))
        /\ brands' = IF aliases # <<>>
                     THEN [brands EXCEPT ![i].aliases = aliases[1]]
                     ELSE brands
        /\ UNCHANGED <<products, price_records, brand_retailers, retailers>>

NextAdmin ==
    \/ IngestStored
    \/ delete_product
    \/ delete_brand
    \/ delete_retailer
    \/ RematchBrand
    \/ edit_brand_submit
    \/ update_brand

SpecAdmin == Init /\ [][NextAdmin]_vars

(***************************************************************************)
(* Properties of the admin operations (checked under SpecAdmin).           *)
(***************************************************************************)
\* C16 (as claimed): every PriceRecord references a stored Product, whichever
\* way products were deleted: directly, with their brand or retailer, or by
\* rematch_brand_products.
C16_RecordsReferenceProducts ==
    \A k \in 1..Len(price_records) : HasId(products, price_records[k].product_id)

\* the aliases of a brand in a brands table
AliasesOf(rows, brand_id) == RowById(rows, brand_id).aliases

\* C17 (as claimed): after an admin edit that changed a brand's alias list,
\* no Product of the brand that was stored before the edit is still stored.
C17_AliasEditRematches ==
    ( /\ lastOp.kind = "edit_brand"
      /\ AliasesOf(brands, lastOp.id) # AliasesOf(lastOp.brands_before, lastOp.id) )
    => \A i \in 1..Len(products) :
           products[i].brand_id = lastOp.id
               => ~HasId(lastOp.before.products, products[i].id)

(***************************************************************************)
(* Concurrent discovery runs.  The runs are asyncio tasks of one event     *)
(* loop, each with a session of its own: main.py lifespan starts the       *)
(* startup run with create_task (line 114), the scheduler starts           *)
(* scheduled_discovery, and POST /discover starts _discover_all_background *)
(* with create_task (routes_dashboard.py 467-471).  Nothing holds a lock,  *)
(* so another task may run whenever one waits at an `await`.               *)
(***************************************************************************)
MaxTaskSteps == 4

\* who started a run
RunEntries == {"startup", "scheduled", "dashboard"}

\* the candidates the scrapers hand the runs
RunCandidates ==
    { ScrapedProduct(TrailShoe, "u1", PriceRegular, MediaScraped, VendorNikeACG),
      ScrapedProduct(TrailShoe, "u2", PriceSale, MediaScrapedBlank, VendorNike) }

\* the frame of a step of a task
TaskStep(w, step) ==
    /\ clock < MaxTaskSteps
    /\ clock' = clock + 1
    /\ lastOp' = [kind |-> "task", writer |-> w, step |-> step, stored |-> FALSE,
                  before |-> Tables(products, price_records, brand_retailers)]
    /\ prevOp' = lastOp
    /\ UNCHANGED matchVars
    /\ UNCHANGED <<scrapers, alert_events, notifications, brands, retailers, http>>
    /\ UNCHANGED progVars

\* store_scraped_products lines 186-189 in a run: the task sends the SELECT
\* by url for its candidate, gets the row committed at that moment (0 when
\* there is none), and waits to be resumed.  The application starts one
\* startup run.
TaskLookup(w) ==
    /\ writers[w].pc = "idle"
    /\ \E entry \in RunEntries, pair \in Pairs, sp \in RunCandidates :
          LET found == ProductsByUrl(products, sp.url)
          IN  /\ entry = "startup" =>
                     \A v \in Writers :
                         IF writers[v].pc = "idle" THEN TRUE
                         ELSE writers[v].entry # "startup"
              /\ writers' = [writers EXCEPT ![w] =
                     [pc |-> "lookup", entry |-> entry, brand |-> pair[1],
                      retailer |-> pair[2], sp |-> sp,
                      found |-> IF found = {} THEN 0
                                ELSE products[CHOOSE i \in found : TRUE].id]]
    /\ TaskStep(w, "lookup")
    /\ UNCHANGED <<products, price_records, brand_retailers>>

\* lines 191-238 once the task is resumed: the branch the lookup chose, then
\* the PriceRecord and the commit.  An exception ends the run and its
\* session is rolled back.
TaskResume(w) ==
    /\ writers[w].pc = "lookup"
    /\ LET wr == writers[w]
           t0 == Tables(products, price_records, brand_retailers)
           r == IF wr.found # 0 /\ HasId(products, wr.found)
                THEN UpdateExisting(t0, CHOOSE i \in 1..Len(products) :
                                            products[i].id = wr.found,
                                    wr.sp, clock + 1)
                ELSE CreateNew(t0, BrandById(wr.brand), RetailerById(wr.retailer),
                               wr.sp, clock + 1)
           t1 == IF r.raised THEN t0 ELSE AddPriceRecord(r.t, r.id, wr.sp)
       IN  /\ writers' = [writers EXCEPT ![w] =
                  [wr EXCEPT !.pc = IF r.raised THEN "failed" ELSE "stored"]]
           /\ products' = t1.products
           /\ price_records' = t1.price_records
           /\ UNCHANGED brand_retailers
    /\ TaskStep(w, "resume")

\* POST /api/products while runs are in flight
ApiCreate ==
    /\ CreateProduct
    /\ \A w \in Writers : writers'[w] = writers[w]

NextTasks ==
    \/ \E w \in Writers : TaskLookup(w)
    \/ \E w \in Writers : TaskResume(w)
    \/ ApiCreate

SpecTasks == Init /\ [][NextTasks]_vars

\* C18 (as claimed): at most one run is inside the upsert of a url, between
\* its lookup by url and its insert or update, at a time.
C18_OneWriterPerUrl ==
    \A v, w \in Writers :
        ( /\ v # w
          /\ writers[v].pc = "lookup"
          /\ writers[w].pc = "lookup" )
        => writers[v].sp.url # writers[w].sp.url

(***************************************************************************)
(* src/retailers/base.py: the requests of a scraper.  search_brand and     *)
(* get_price of every scraper class reach the network through _fetch       *)
(* (directly or by _fetch_soup / _fetch_json); health_check does not.      *)
(***************************************************************************)
MaxHttp == 5

\* config.py line 20
REQUEST_DELAY_SECONDS == 2

\* an await asyncio.sleep(seconds) and a client.get(url) of a scraper
Slept(slug, op, seconds) ==
    [kind |-> "sleep", slug |-> slug, op |-> op, url |-> "", seconds |-> seconds]

Requested(slug, op, url) ==
    [kind |-> "request", slug |-> slug, op |-> op, url |-> url, seconds |-> 0]

\* mutant: the request is sent at once
_fetch_NoDelay(log, slug, op, url) ==
    Append(log, Requested(slug, op, url))

\* RetailerBase._fetch, lines 70-76
_fetch(log, slug, op, url) ==
    Append(Append(log, Slept(slug, op, REQUEST_DELAY_SECONDS)),
           Requested(slug, op, url))

\* the pages search_brand and get_price ask for
FetchUrls == {"collection", "search"}

\* a search_brand or get_price of a scraper: one call of _fetch, or two
\* (a second endpoint or page)
ScraperFetches ==
    \E slug \in ScraperSlugs \cup {"generic"}, op \in {"search_brand", "get_price"},
       first \in FetchUrls, more \in BOOLEAN :
        LET one == _fetch(http, slug, op, first)
            log == IF more THEN _fetch(one, slug, op, "search") ELSE one
        IN  /\ Len(log) <= MaxHttp
            /\ http' = log
            /\ UNCHANGED <<matchVars, dbVars>>
            /\ UNCHANGED <<scrapers, alert_events, notifications, brands, retailers,
                           writers>>
            /\ UNCHANGED progVars

\* RetailerBase.health_check, lines 100-107, as the retailer suggestion form
\* calls it on a GenericScraper (routes_dashboard.py 1119-1125)
health_check ==
    /\ Len(http) < MaxHttp
    /\ http' = Append(http, Requested("generic", "health_check", "base_url"))
    /\ UNCHANGED <<matchVars, dbVars>>
    /\ UNCHANGED <<scrapers, alert_events, notifications, brands, retailers, writers>>
    /\ UNCHANGED progVars

NextHttp == ScraperFetches \/ health_check

SpecHttp == Init /\ [][NextHttp]_vars

\* the request at position k of the log comes right after a sleep of the
\* configured delay by the same scraper operation
Delayed(k) ==
    /\ k > 1
    /\ http[k - 1].kind = "sleep"
    /\ http[k - 1].seconds = REQUEST_DELAY_SECONDS
    /\ http[k - 1].slug = http[k].slug
    /\ http[k - 1].op = http[k].op

\* C20 (as claimed): every request a scraper sends is preceded by a sleep of
\* REQUEST_DELAY_SECONDS.
C20_EveryRequestDelayed ==
    \A k \in 1..Len(http) : http[k].kind = "request" => Delayed(k)

\* C20 (amended): every request of search_brand and get_price is preceded by
\* a sleep of REQUEST_DELAY_SECONDS; the request of health_check is sent
\* without one.
C20_FetchRequestsDelayed ==
    \A k \in 1..Len(http) :
        http[k].kind = "request" => (Delayed(k) <=> http[k].op # "health_check")

\* C20 witness: a scraper slept and then sent the second request of a search
\* after a health check went out
C20_Witness ==
    \E j, k \in 1..Len(http) :
        /\ j < k - 2
        /\ http[j].op = "health_check"
        /\ http[k].kind = "request" /\ http[k].op = "search_brand"
        /\ http[k - 2].kind = "request" /\ http[k - 2].op = "search_brand"
        /\ Delayed(k)

(***************************************************************************)
(* Retailer discovery with progress: routes_dashboard.py discover_retailer *)
(* (POST /retailers/{id}/discover) and _discover_retailer_background.  The *)
(* handler and the tasks run on one event loop: a task runs from one await *)
(* to the next without interruption, and anything else may run while it    *)
(* waits for the database or a scraper.                                    *)
(***************************************************************************)
MaxTasks == 2

MaxTime == 301

\* _cleanup_stale_progress, line 42: the age in seconds after which an entry
\* is removed
StaleSeconds == 300

\* _cleanup_stale_progress, lines 40-45
_cleanup_stale_progress(progress, now) ==
    [key \in DOMAIN progress |->
        IF progress[key].status # "absent"
           /\ progress[key].updated_at < now - StaleSeconds
        THEN NoProgress
        ELSE progress[key]]

\* what the steps of this section leave alone
ProgressFrame ==
    /\ UNCHANGED matchVars
    /\ UNCHANGED <<clock, prevOp, alert_events, notifications, writers, http>>
    /\ UNCHANGED adminVars

\* the retailer_id of the requests: a retailer whose scraper is on the skip
\* list and one whose scraper type has no class (the task of a retailer with
\* a working scraper takes the steps of the first)
DiscoverIds ==
    {id \in RetailerIds : RetailerById(id).scraper_type \notin _get_working_scrapers}

\* discover_retailer, lines 942-959: 409 while the entry of the key says
\* running; otherwise the stale entries are removed and the task is created
\* (it starts to run at a later turn of the event loop)
discover_retailer ==
    \E retailer_id \in DiscoverIds :
        /\ \/ /\ _discovery_progress[retailer_id].status = "running"
              /\ lastOp' = [kind |-> "discover_retailer", status_code |-> 409]
              /\ UNCHANGED <<_discovery_progress, tasks>>
           \/ /\ _discovery_progress[retailer_id].status # "running"
              /\ Len(tasks) < MaxTasks
              /\ _discovery_progress' =
                     _cleanup_stale_progress(_discovery_progress, time)
              /\ tasks' = Append(tasks, [retailer_id |-> retailer_id, pc |-> "created",
                                         i |-> 0, total_products |-> 0,
                                         total_new |-> 0])
              /\ lastOp' = [kind |-> "discover_retailer", status_code |-> 200]
        /\ UNCHANGED <<products, price_records, brand_retailers, scrapers, time>>
        /\ ProgressFrame

\* time.time() moves on while the tasks wait
TimePasses ==
    \E seconds \in {StaleSeconds, StaleSeconds + 1} :
        /\ time + seconds <= MaxTime
        /\ time' = time + seconds
        /\ UNCHANGED <<products, price_records, brand_retailers, scrapers, lastOp,
                       _discovery_progress, tasks>>
        /\ ProgressFrame

\* the end of task k: lines 451-454 close the scrapers, and the task leaves
\* `entry` under its key (done at lines 436-441, error at lines 456-468)
RetailerTaskEnds(k, task, entry) ==
    /\ _discovery_progress' =
           [_discovery_progress EXCEPT ![tasks[k].retailer_id] = entry]
    /\ tasks' = [tasks EXCEPT ![k] = task]
    /\ scrapers' = scrapers \cup
           ScrapersOf("retailer", get_all_scrapers,
                      << <<ActiveBrands[1].id, tasks[k].retailer_id>> >>, TRUE)

\* lines 371-412: the task starts.  It returns when the retailer or its
\* scraper is missing; otherwise it writes the running entry and the update
\* for the first brand, and waits for discover_brand_at_retailer.
RetailerTaskStart(k) ==
    /\ k \in 1..Len(tasks)
    /\ tasks[k].pc = "created"
    /\ IF \/ tasks[k].retailer_id \notin RetailerIds
          \/ RetailerById(tasks[k].retailer_id).scraper_type \notin get_all_scrapers
       THEN /\ _discovery_progress' =
                   [_discovery_progress EXCEPT ![tasks[k].retailer_id] = NoProgress]
            /\ tasks' = [tasks EXCEPT ![k].pc = "returned"]
            /\ UNCHANGED scrapers
       ELSE IF ActiveBrands = <<>>
       THEN RetailerTaskEnds(k, [tasks[k] EXCEPT !.pc = "done"],
                             ProgressEntry("done", <<>>, 0, 0, 0, 0, time))
       ELSE /\ _discovery_progress' =
                   [_discovery_progress EXCEPT ![tasks[k].retailer_id] =
                       ProgressEntry("running", ActiveBrands[1].name, 0,
                                     Len(ActiveBrands), 0, 0, time)]
            /\ tasks' = [tasks EXCEPT ![k].pc = "running", ![k].i = 1]
            /\ UNCHANGED scrapers
    /\ UNCHANGED <<products, price_records, brand_retailers, lastOp, time>>
    /\ ProgressFrame

\* mutant: the KeyError of an update of a removed entry ends the task
\* without the error entry
BrandFinished_KeyErrorEscapes(k, t, found, new, raised) ==
    /\ products' = t.products
    /\ price_records' = t.price_records
    /\ brand_retailers' = t.brand_retailers
    /\ IF raised
       THEN RetailerTaskEnds(k, [tasks[k] EXCEPT !.pc = "error"],
                             ProgressEntry("error", <<>>, 0, 0, 0, 0, time))
       ELSE IF _discovery_progress[tasks[k].retailer_id].status = "absent"
       THEN /\ tasks' = [tasks EXCEPT ![k].pc = "crashed"]
            /\ UNCHANGED <<_discovery_progress, scrapers>>
       ELSE IF tasks[k].i < Len(ActiveBrands)
       THEN /\ _discovery_progress' =
                   [_discovery_progress EXCEPT ![tasks[k].retailer_id] =
                       [@ EXCEPT !.current_brand = ActiveBrands[tasks[k].i + 1].name,
                                 !.brands_done = tasks[k].i,
                                 !.products_found = tasks[k].total_products + found,
                                 !.new_products = tasks[k].total_new + new,
                                 !.updated_at = time]]
            /\ tasks' = [tasks EXCEPT ![k].i = @ + 1,
                                      ![k].total_products = @ + found,
                                      ![k].total_new = @ + new]
            /\ UNCHANGED scrapers
       ELSE RetailerTaskEnds(
                k,
                [tasks[k] EXCEPT !.pc = "done", !.total_products = @ + found,
                                 !.total_new = @ + new],
                [_discovery_progress[tasks[k].retailer_id] EXCEPT
                    !.status = "done", !.current_brand = <<>>,
                    !.brands_done = tasks[k].i,
                    !.products_found = tasks[k].total_products + found,
                    !.new_products = tasks[k].total_new + new,
                    !.updated_at = time])

\* lines 414-441 and 455-468, once the awaits of brand i are over: t is what
\* the session committed, `raised` an exception of store_scraped_products.
\* The updates of the entry raise KeyError when the key is gone; every
\* exception closes the scrapers and leaves the error entry.  Otherwise the
\* task goes on to the next brand or writes done.
BrandFinished(k, t, found, new, raised) ==
    /\ products' = t.products
    /\ price_records' = t.price_records
    /\ brand_retailers' = t.brand_retailers
    /\ IF raised \/ _discovery_progress[tasks[k].retailer_id].status = "absent"
       THEN RetailerTaskEnds(k, [tasks[k] EXCEPT !.pc = "error"],
                             ProgressEntry("error", <<>>, 0, 0, 0, 0, time))
       ELSE IF tasks[k].i < Len(ActiveBrands)
       THEN /\ _discovery_progress' =
                   [_discovery_progress EXCEPT ![tasks[k].retailer_id] =
                       [@ EXCEPT !.current_brand = ActiveBrands[tasks[k].i + 1].name,
                                 !.brands_done = tasks[k].i,
                                 !.products_found = tasks[k].total_products + found,
                                 !.new_products = tasks[k].total_new + new,
                                 !.updated_at = time]]
            /\ tasks' = [tasks EXCEPT ![k].i = @ + 1,
                                      ![k].total_products = @ + found,
                                      ![k].total_new = @ + new]
            /\ UNCHANGED scrapers
       ELSE RetailerTaskEnds(
                k,
                [tasks[k] EXCEPT !.pc = "done", !.total_products = @ + found,
                                 !.total_new = @ + new],
                [_discovery_progress[tasks[k].retailer_id] EXCEPT
                    !.status = "done", !.current_brand = <<>>,
                    !.brands_done = tasks[k].i,
                    !.products_found = tasks[k].total_products + found,
                    !.new_products = tasks[k].total_new + new,
                    !.updated_at = time])

\* lines 420-427: res is what store_scraped_products did with the candidates
BrandStored(k, found, res) ==
    IF res.raised
    THEN BrandFinished(k, Db, 0, 0, TRUE)
    ELSE BrandFinished(k, res.t, found, res.new_count, FALSE)

\* lines 414-427: d is what discover_brand_at_retailer returned
BrandSearched(k, d) ==
    IF d.products = <<>>
    THEN BrandFinished(k, d.t, 0, 0, FALSE)
    ELSE BrandStored(k, Len(d.products),
                     store_scraped_products(
                         d.t, ActiveBrands[tasks[k].i],
                         RetailerById(tasks[k].retailer_id), d.products, time))

\* one turn of the loop at lines 406-433: the awaits of the brand return (a
\* search that raises is answered like one that finds nothing)
RetailerTaskBrand(k) ==
    /\ k \in 1..Len(tasks)
    /\ tasks[k].pc = "running"
    /\ \E x \in {y \in RunResponses : ~y.raises} :
          BrandSearched(
              k,
              discover_brand_at_retailer(
                  Db, ActiveBrands[tasks[k].i], RetailerById(tasks[k].retailer_id),
                  [j \in 1..Len(SearchTerms(ActiveBrands[tasks[k].i])) |-> x]))
    /\ UNCHANGED <<lastOp, time>>
    /\ ProgressFrame

NextRetailer ==
    \/ discover_retailer
    \/ TimePasses
    \/ \E k \in 1..MaxTasks : RetailerTaskStart(k)
    \/ \E k \in 1..MaxTasks : RetailerTaskBrand(k)

SpecRetailer == Init /\ [][NextRetailer]_vars

\* the event loop runs every task that is ready, and every call a task waits
\* for returns or raises
FairSpecRetailer ==
    /\ SpecRetailer
    /\ \A k \in 1..MaxTasks :
          WF_vars(RetailerTaskStart(k)) /\ WF_vars(RetailerTaskBrand(k))

(***************************************************************************)
(* Properties of retailer discovery (checked under SpecRetailer, C28 under *)
(* FairSpecRetailer).                                                      *)
(***************************************************************************)
\* task k has been created and has not ended
Live(k) == k <= Len(tasks) /\ tasks[k].pc \in {"created", "running"}

\* C22 (as claimed): no discovery run calls search_brand on a scraper of
\* the skip list.
C22_SkipListedNeverSearched ==
    \A sc \in scrapers : sc.used => sc.slug \notin SKIP_SCRAPERS

\* C25 (as claimed): at most one retailer discovery task is in flight for a
\* retailer.
C25_OneTaskPerRetailer ==
    \A a \in 1..MaxTasks, b \in 1..MaxTasks :
        (Live(a) /\ Live(b) /\ tasks[a].retailer_id = tasks[b].retailer_id) => a = b

\* C28: a task that wrote the running entry writes done or error later, and
\* an entry that says running does not stay so.
C28_RunningTaskFinishes ==
    /\ \A k \in 1..MaxTasks :
          (k <= Len(tasks) /\ tasks[k].pc = "running")
              ~> (k <= Len(tasks) /\ tasks[k].pc \in {"done", "error"})
    /\ \A key \in ProgressKeys :
          (_discovery_progress[key].status = "running")
              ~> (_discovery_progress[key].status # "running")

\* C28 witness: a task went through every brand and wrote done, and a later
\* one ended with the error entry
C28_Witness ==
    \E a \in 1..Len(tasks), b \in 1..Len(tasks) :
        /\ a < b
        /\ tasks[a].pc = "done"
        /\ tasks[a].i = Len(ActiveBrands)
        /\ tasks[b].pc = "error"
        /\ _discovery_progress[tasks[b].retailer_id].status = "error"

\* C29 (as claimed): the entry of a task that is running is in the dict.
C29_RunningEntryKept ==
    \A k \in 1..Len(tasks) :
        tasks[k].pc = "running"
            => _discovery_progress[tasks[k].retailer_id].status # "absent"

(***************************************************************************)
(* Inputs of the matcher.                                                  *)
(***************************************************************************)
MaxVendorLen == 5
MaxWordLen == 4
MaxPartLen == 2

\* all strings over `chars` of length at most n
RECURSIVE StringsUpTo(_, _)
StringsUpTo(chars, n) ==
    IF n = 0 THEN {<<>>}
    ELSE LET shorter == StringsUpTo(chars, n - 1)
         IN  shorter \cup {Append(s, c) : s \in shorter, c \in chars}

WordChars == {"a", "B"}

\* vendor strings as retailers report them: words, and words with punctuation
MatchVendors ==
    StringsUpTo(WordChars, MaxVendorLen)
        \cup {<<".">>, <<" ">>, <<"a", ".", "B">>, <<"a", " ", "B">>,
              <<"a", "B", "-", "a", "B">>}

\* canonical names: single words, and two parts joined by a space
MatchNames ==
    StringsUpTo(WordChars, MaxWordLen)
        \cup {p \o <<" ">> \o q : p, q \in StringsUpTo(WordChars, MaxPartLen)}
        \cup {<<"a", "B", "'", "a", "B">>, <<"a", "B", " ", "a", "B", "a">>}

MatchAliasLists ==
    { <<>>,
      << <<"B", "a">> >>,
      << <<"a", " ", "a">> >>,
      << <<"a", "B", "a", "B">> >>,
      << <<"A", ".", "B", ".">> >>,
      << <<"B">>, <<"B", "a", " ", "a", "B">> >> }

InitMatch ==
    /\ mVendor \in MatchVendors
    /\ mName \in MatchNames
    /\ mAliases \in MatchAliasLists
    /\ mCalled = FALSE
    /\ mResult = FALSE
    /\ DbEmpty
    /\ ExtInit

\* one call of _brand_matches on the chosen arguments
ApplyBrandMatches ==
    /\ ~mCalled
    /\ mCalled' = TRUE
    /\ mResult' = _brand_matches(mVendor, mName, mAliases)
    /\ UNCHANGED <<mVendor, mName, mAliases>>
    /\ UNCHANGED dbVars
    /\ UNCHANGED extVars

NextMatch == ApplyBrandMatches

SpecMatch == InitMatch /\ [][NextMatch]_vars

(***************************************************************************)
(* Properties of the brand matcher (checked under SpecMatch).              *)
(***************************************************************************)
\* the arguments, as the claims speak of them
ArgIsCompound ==
    \/ \E k \in 1..Len(mName) : mName[k] = " "
    \/ \E a \in 1..Len(mAliases) : \E k \in 1..Len(mAliases[a]) : mAliases[a][k] = " "

ArgNormVendor == _normalize(mVendor)

ArgNormNames ==
    {_normalize(mName)} \cup {_normalize(mAliases[a]) : a \in 1..Len(mAliases)}

\* C3: when the canonical name or an alias contains a space, a vendor whose
\* normalization is non-empty matches exactly when its normalization equals
\* the normalized name or a normalized alias; substrings and superstrings of
\* them are rejected.
C3_CompoundExactOnly ==
    (mCalled /\ ArgIsCompound /\ ArgNormVendor # <<>>)
        => (mResult <=> ArgNormVendor \in ArgNormNames)

\* C3 witness: a compound brand rejected a vendor that is a proper substring
\* of an acceptable name of four or more characters
C3_Witness ==
    /\ mCalled /\ ArgIsCompound /\ ArgNormVendor # <<>>
    /\ ~mResult
    /\ \E n \in ArgNormNames : Len(n) >= 4 /\ n # ArgNormVendor /\ Contains(n, ArgNormVendor)

\* C4: _brand_matches is true exactly when (a) the vendor normalizes to the
\* empty string, or (b) the normalized vendor is an acceptable name, or (c) the
\* brand is not compound and an acceptable name of length >= 4 contains, or
\* is contained in, the normalized vendor.
C4_MatchCharacterised ==
    mCalled =>
        (mResult <=>
            \/ ArgNormVendor = <<>>
            \/ ArgNormVendor \in ArgNormNames
            \/ /\ ~ArgIsCompound
               /\ \E n \in ArgNormNames :
                      /\ Len(n) >= 4
                      /\ (Contains(ArgNormVendor, n) \/ Contains(n, ArgNormVendor)))

\* C4 witness: a match that rests on the substring rule alone, the vendor
\* strictly containing an acceptable name
C4_Witness ==
    /\ mCalled /\ mResult
    /\ ArgNormVendor # <<>>
    /\ ArgNormVendor \notin ArgNormNames
    /\ \E n \in ArgNormNames : Len(n) >= 4 /\ Contains(ArgNormVendor, n)

====
